---- MODULE Spec2Model ----
(***************************************************************************)
(* Trade valuation core of the TradeMachine dashboard (appwithimages.py):  *)
(* calculate_week, calculate_score, parse_attempts,                        *)
(* calculate_team_averages, evaluate_trade and the part of main() that     *)
(* gates evaluate_trade.                                                   *)
(*                                                                         *)
(* Numbers.  Python floats are modelled as exact rationals.  A score is an *)
(* integer number of twentieths of a point (the blend divides by 20), so   *)
(* 2.00 is 40 and an injury adjustment of -1 is -20.  A quotient is a pair *)
(* <<numerator, denominator>>.  round(x, 2) is an integer number of        *)
(* hundredths; when x lies exactly half way between two hundredths the     *)
(* direction depends on the binary representation of the float (see Round).*)
(***************************************************************************)
EXTENDS Integers, Sequences, FiniteSets, TLC

VARIABLES
    data,               \* the merged score table (list of rows), main():1099-1131
    df_regular_season,  \* the four statistics tables, main():1139-1156
    df_rest_of_season,
    df_last14,
    df_last30,
    team1,              \* st.selectbox "team1_select"
    team2,              \* st.selectbox "team2_select"
    team1_selected,     \* st.multiselect "team1_selected_players" (selection order)
    team2_selected,     \* st.multiselect "team2_selected_players"
    injury_status,      \* st.selectbox "team{1,2}_{player}_injury_status", by <<side, player>>
    num_top_players,    \* st.number_input
    result,             \* what the last run of main() rendered
    call                \* one call of a pure function: its arguments and its return value

vars == <<data, df_regular_season, df_rest_of_season, df_last14, df_last30,
          team1, team2, team1_selected, team2_selected, injury_status,
          num_top_players, result, call>>

tables == <<data, df_regular_season, df_rest_of_season, df_last14, df_last30>>

widgets == <<team1, team2, team1_selected, team2_selected, injury_status, num_top_players>>

-----------------------------------------------------------------------------
(* Arithmetic helpers *)

Max(a, b) == IF a >= b THEN a ELSE b

Min(a, b) == IF a <= b THEN a ELSE b

\* Python's max(a, b): b only if b > a
PyMax(a, b) == IF b > a THEN b ELSE a

Range(s) == {s[i] : i \in DOMAIN s}

\* f itself, as a table of its values: TLC then evaluates each value once
Eager(f) == f @@ << >>

RECURSIVE SumSeq(_)
SumSeq(s) == IF s = <<>> THEN 0 ELSE Head(s) + SumSeq(Tail(s))

\* the assumed season length in weeks, the divisor of the blend
SeasonWeeks == 20

\* a number of whole points as a score (twentieths of a point)
Points(p) == p * SeasonWeeks

\* the floor 2 / 2.00 / 2.0 of calculate_score, evaluate_trade and the safe sums
MinScore == 2

\* quotients n/d with d > 0, compared by cross multiplication
RatLess(x, y) == x[1] * y[2] < y[1] * x[2]

RatEq(x, y) == x[1] * y[2] = y[1] * x[2]

\* Python's min(x, y): y only if y < x
RatMin(x, y) == IF RatLess(y, x) THEN y ELSE x

\* round(x, digits) of a float x >= 0, in units of 10^-digits (unit = 10^digits).
\* Off a tie it is the nearest multiple.  At a tie m/(2*unit), m odd: if the
\* value is a binary fraction the float is exact and Python rounds half to
\* even; otherwise the float lies just above or just below the tie, which the
\* model leaves open: ties_up is the set of such values <<m, unit>> whose float
\* lies above.  The same value always rounds the same way.
RECURSIVE OddPartOf(_)
OddPartOf(n) == IF n > 0 /\ n % 2 = 0 THEN OddPartOf(n \div 2) ELSE n

IsTie(x, unit) == (2 * ((unit * x[1]) % x[2])) = x[2]

TieOf(x, unit) == <<(2 * unit * x[1]) \div x[2], unit>>

ExactTie(x, unit) == TieOf(x, unit)[1] % OddPartOf(unit) = 0

\* the ties of x whose direction the float representation decides
OpenTies(x, unit) ==
    IF IsTie(x, unit) /\ ~ExactTie(x, unit) THEN {TieOf(x, unit)} ELSE {}

\* truncation in place of rounding
RoundDown(x, unit, ties_up) == (unit * x[1]) \div x[2]

Round(x, unit, ties_up) ==
    LET q == (unit * x[1]) \div x[2]
        r == (unit * x[1]) % x[2]
    IN  IF 2 * r < x[2] THEN q
        ELSE IF 2 * r > x[2] THEN q + 1
        ELSE IF ExactTie(x, unit) THEN (IF q % 2 = 0 THEN q ELSE q + 1)
        ELSE IF TieOf(x, unit) \in ties_up THEN q + 1 ELSE q

-----------------------------------------------------------------------------
(* calculate_week *)

\* a week number that changes every day
calculate_week_daily(delta_days) == Max(0, delta_days + 1)

\* the quotient rounded toward zero, as int(delta.days / 7) would give it
calculate_week_truncating(delta_days) ==
    Max(0, (IF delta_days >= 0 THEN delta_days \div 7 ELSE 0 - ((0 - delta_days) \div 7)) + 1)

\* days from the season start, 2024-10-21, to datetime.now()
calculate_week(delta_days) == Max(0, (delta_days \div 7) + 1)

-----------------------------------------------------------------------------
(* The score table *)

\* A cell of a table is a number, NaN (an empty cell as pandas reads it) or a
\* string; a float of the program is a number or NaN.
NA == [t |-> "str", s |-> "N/A"]

Num(v) == [t |-> "num", v |-> v]

NaN == [t |-> "nan"]

IsNaN(cell) == cell.t = "nan"

IsNumber(cell) == cell.t = "num"

\* data[data['Player_Name'] == player_name]
RowsOf(df, player_name) == SelectSeq(df, LAMBDA row : row.Player_Name = player_name)

\* .iloc[0]; an empty selection raises IndexError
HasPlayer(df, player_name) == RowsOf(df, player_name) # <<>>

PlayerData(df, player_name) == Head(RowsOf(df, player_name))

-----------------------------------------------------------------------------
(* calculate_score *)

\* calculate_score with the two weights exchanged
calculate_score_swapped(player_name, week, df) ==
    LET player_data == PlayerData(df, player_name)
    IN  IF IsNaN(player_data.Regular) \/ IsNaN(player_data.Projection)
        THEN Points(MinScore)
        ELSE PyMax(Points(MinScore), ((SeasonWeeks - week) * player_data.Regular.v)
                                        + (week * player_data.Projection.v))

\* the exception calculate_score raises, "none" if it returns: IndexError
\* from .iloc[0] on an empty selection, TypeError from (n * 'text') / 20
calculate_score_raises(player_name, week, df) ==
    IF ~HasPlayer(df, player_name) THEN "IndexError"
    ELSE LET player_data == PlayerData(df, player_name)
         IN  IF player_data.Projection.t = "str" \/ player_data.Regular.t = "str"
             THEN "TypeError"
             ELSE "none"

\* calculate_score with the week held at the length of the season
calculate_score_clamped(player_name, week, df) ==
    LET player_data == PlayerData(df, player_name)
        clamped     == Min(week, SeasonWeeks)
    IN  IF IsNaN(player_data.Regular) \/ IsNaN(player_data.Projection)
        THEN Points(MinScore)
        ELSE PyMax(Points(MinScore), ((SeasonWeeks - clamped) * player_data.Projection.v)
                                        + (clamped * player_data.Regular.v))

\* the value calculate_score returns when it raises nothing, in twentieths
calculate_score(player_name, week, df) ==
    LET player_data == PlayerData(df, player_name)
        regular     == player_data.Regular
        projection  == player_data.Projection
    IN  IF IsNaN(regular) \/ IsNaN(projection)
        THEN \* score is NaN, and max(2, NaN) is 2: NaN > 2 is false
             Points(MinScore)
        ELSE \* (((20 - week) * projection) / 20) + ((week * regular) / 20), in twentieths
             LET score == ((SeasonWeeks - week) * projection.v) + (week * regular.v)
             IN  PyMax(Points(MinScore), score)

\* the loop body without its second floor
AdjustedScoreNoFloor(player, injury_adjustment, week, df) ==
    calculate_score(player, week, df) + Points(injury_adjustment)

\* the loop body without the injury adjustment
AdjustedScoreIgnoringInjury(player, injury_adjustment, week, df) ==
    PyMax(Points(MinScore), calculate_score(player, week, df))

\* the loop body with a penalty that grows with the week, week / 20 of the
\* adjustment, in place of the flat one
AdjustedScoreTimeWeighted(player, injury_adjustment, week, df) ==
    PyMax(Points(MinScore), calculate_score(player, week, df) + week * injury_adjustment)

\* evaluate_trade, loop body lines 292-295: the blended score plus the
\* player's injury adjustment, floored again
AdjustedScore(player, injury_adjustment, week, df) ==
    LET score == calculate_score(player, week, df) + Points(injury_adjustment)
    IN  PyMax(Points(MinScore), score)

-----------------------------------------------------------------------------
(* evaluate_trade: scores, empty slots, totals and ratios (lines 283-553) *)

Dash == [t |-> "str", s |-> "-"]

EmptySlot == "Empty Slot"

\* one entry of team{1,2}_details for a player (image_path is display only)
PlayerDetail(df, player, injury_adjustment, week) ==
    LET player_data == PlayerData(df, player)
    IN  [player            |-> player,
         regular           |-> player_data.Regular,
         projection        |-> player_data.Projection,
         last14            |-> player_data.Last14,
         last30            |-> player_data.Last30,
         score             |-> AdjustedScore(player, injury_adjustment, week, df),
         injury_adjustment |-> injury_adjustment]

\* the exception that ends the loop over a side's players, "none" if it
\* completes: the first one calculate_score raises, or IndexError from
\* team_injury_adjustments[idx] on a list shorter than the players'
RECURSIVE LoopRaisesFrom(_, _, _, _, _)
LoopRaisesFrom(df, players, injury_adjustments, week, idx) ==
    IF idx > Len(players) THEN "none"
    ELSE IF calculate_score_raises(players[idx], week, df) # "none"
         THEN calculate_score_raises(players[idx], week, df)
         ELSE IF idx > Len(injury_adjustments) THEN "IndexError"
              ELSE LoopRaisesFrom(df, players, injury_adjustments, week, idx + 1)

LoopRaises(df, players, injury_adjustments, week) ==
    LoopRaisesFrom(df, players, injury_adjustments, week, 1)

\* the loop over enumerate(team_players), lines 291-314 and 322-345
TeamDetails(df, players, injury_adjustments, week) ==
    [idx \in 1..Len(players) |->
        PlayerDetail(df, players[idx], injury_adjustments[idx], week)]

ScoresOf(details) == [i \in 1..Len(details) |-> details[i].score]

\* the detail of an empty slot with no score of its own
EmptySlotDetailUnscored ==
    [player            |-> EmptySlot,
     regular           |-> Dash,
     projection        |-> Dash,
     last14            |-> Dash,
     last30            |-> Dash,
     score             |-> 0,
     injury_adjustment |-> 0]

EmptySlotDetail ==
    [player            |-> EmptySlot,
     regular           |-> Dash,
     projection        |-> Dash,
     last14            |-> Dash,
     last30            |-> Dash,
     score             |-> Points(MinScore),
     injury_adjustment |-> 0]

\* the padding that always leaves the shorter side one slot short
EmptySlotsOneShort(own_players, other_players) ==
    IF Len(own_players) < Len(other_players)
    THEN Len(other_players) - Len(own_players) - 1
    ELSE 0

\* lines 350-351 and 367-368: the number of empty slots a side receives
EmptySlots(own_players, other_players) ==
    IF Len(own_players) < Len(other_players)
    THEN Len(other_players) - Len(own_players)
    ELSE 0

\* [x] * n
Repeat(x, n) == [i \in 1..n |-> x]

\* line 387
ZeroTotal(team1_total, team2_total) == team1_total = 0 \/ team2_total = 0

\* the ratio without the min: team 1's total over team 2's
TradeRatioOneWay(team1_total, team2_total) == <<team1_total, team2_total>>

\* line 392, before rounding: min(team1_total / team2_total, team2_total / team1_total)
TradeRatioExact(team1_total, team2_total) ==
    RatMin(<<team1_total, team2_total>>, <<team2_total, team1_total>>)

\* float(cell) succeeds: on a number and on NaN, not on a string such as '-'
IsFloat(cell) == cell.t \in {"num", "nan"}

\* a + b of two floats
FloatAdd(a, b) == IF IsNaN(a) \/ IsNaN(b) THEN NaN ELSE Num(a.v + b.v)

\* max(val, 2.00): Python keeps the first argument unless the second is
\* greater, and no comparison with NaN is true
MaxWithFloor(val) == IF IsNaN(val) THEN NaN ELSE Num(PyMax(val.v, Points(MinScore)))

\* float(cell) of a cell of whole points, in twentieths
ScoreOf(cell) == IF IsNaN(cell) THEN NaN ELSE Num(Points(cell.v))

RECURSIVE safe_sum_regular(_)
safe_sum_regular(details) ==
    IF details = <<>> THEN Num(0)
    ELSE LET d == Head(details)
             rest == safe_sum_regular(Tail(details))
         IN  IF d.player = EmptySlot THEN FloatAdd(Num(Points(MinScore)), rest)
             ELSE IF d.regular # Dash /\ IsFloat(d.regular)
                  THEN FloatAdd(MaxWithFloor(FloatAdd(ScoreOf(d.regular),
                                                      Num(Points(d.injury_adjustment)))),
                                rest)
                  ELSE rest

\* a sum that counts 2.0 for every entry without a number, as for an empty slot
RECURSIVE safe_sum_recent_floor_for_absent(_, _)
safe_sum_recent_floor_for_absent(details, field) ==
    IF details = <<>> THEN Num(0)
    ELSE LET d == Head(details)
             rest == safe_sum_recent_floor_for_absent(Tail(details), field)
         IN  IF d.player # EmptySlot /\ IsNumber(d[field])
             THEN FloatAdd(MaxWithFloor(FloatAdd(ScoreOf(d[field]),
                                                 Num(Points(d.injury_adjustment)))),
                           rest)
             ELSE FloatAdd(Num(Points(MinScore)), rest)

\* safe_sum_last14 and safe_sum_last30 differ only in the field they read
RECURSIVE safe_sum_recent(_, _)
safe_sum_recent(details, field) ==
    IF details = <<>> THEN Num(0)
    ELSE LET d == Head(details)
             rest == safe_sum_recent(Tail(details), field)
             val == d[field]
         IN  IF d.player = EmptySlot THEN FloatAdd(Num(Points(MinScore)), rest)
             ELSE IF val # NA /\ IsFloat(val)
                  THEN FloatAdd(MaxWithFloor(FloatAdd(ScoreOf(val),
                                                      Num(Points(d.injury_adjustment)))),
                                rest)
                  ELSE rest

safe_sum_last14(details) == safe_sum_recent(details, "last14")

safe_sum_last30(details) == safe_sum_recent(details, "last30")

\* compute_ratio before rounding; <<0, 1>> is the 0.00 of the else branch
\* a > b of two floats: false when either is NaN
FloatGreater(a, b) == IsNumber(a) /\ IsNumber(b) /\ a.v > b.v

compute_ratio_exact(a, b) ==
    IF FloatGreater(a, Num(0)) /\ FloatGreater(b, Num(0))
    THEN RatMin(<<a.v, b.v>>, <<b.v, a.v>>)
    ELSE <<0, 1>>

\* compute_ratio without the min
compute_ratio_one_way(a, b, ties_up) ==
    IF FloatGreater(a, Num(0)) /\ FloatGreater(b, Num(0))
    THEN Round(<<a.v, b.v>>, 100, ties_up)
    ELSE 0

compute_ratio(a, b, ties_up) == Round(compute_ratio_exact(a, b), 100, ties_up)

dominant_team(a, b, team1_name, team2_name) ==
    IF FloatGreater(a, b) THEN team1_name
    ELSE IF FloatGreater(b, a) THEN team2_name
    ELSE "Equal"

\* the policy threshold of line 548, in hundredths
ApprovalThreshold == 80

\* the verdict with > in place of >=
TradeStatusStrict(trade_ratio) ==
    IF trade_ratio > ApprovalThreshold THEN "TRADE APPROVED" ELSE "TRADE NOT APPROVED"

\* lines 548-553
TradeStatus(trade_ratio) ==
    IF trade_ratio >= ApprovalThreshold THEN "TRADE APPROVED" ELSE "TRADE NOT APPROVED"

-----------------------------------------------------------------------------
(* parse_attempts (lines 214-224) *)

\* A text cell is a sequence of characters; Str turns a literal into one.
\* The characters of the model are the digits, '.', '/' and 'x' (any other
\* character float() rejects).  A parsed number is in tenths.
Digits == ("0" :> 0) @@ ("1" :> 1) @@ ("2" :> 2) @@ ("3" :> 3) @@ ("4" :> 4) @@
          ("5" :> 5) @@ ("6" :> 6) @@ ("7" :> 7) @@ ("8" :> 8) @@ ("9" :> 9)

Text(chars) == [t |-> "str", s |-> chars]

\* an empty spreadsheet cell read by pandas: float('nan'), not a string
NaNCell == [t |-> "nan"]

\* str.split(sep): the pieces between the separators
RECURSIVE SplitAcc(_, _, _)
SplitAcc(chars, sep, piece) ==
    IF chars = <<>> THEN <<piece>>
    ELSE IF Head(chars) = sep
         THEN <<piece>> \o SplitAcc(Tail(chars), sep, <<>>)
         ELSE SplitAcc(Tail(chars), sep, Append(piece, Head(chars)))

Split(chars, sep) == SplitAcc(chars, sep, <<>>)

RECURSIVE DigitsValue(_)
DigitsValue(chars) ==
    IF chars = <<>> THEN 0
    ELSE 10 * DigitsValue(SubSeq(chars, 1, Len(chars) - 1)) + Digits[chars[Len(chars)]]

AllDigits(chars) == \A i \in DOMAIN chars : chars[i] \in DOMAIN Digits

\* float(s) for s of the form d+, d+.d* or d*.d with at most one fractional digit
FloatOk(chars) ==
    LET parts == Split(chars, ".")
    IN  /\ Len(parts) \in {1, 2}
        /\ \A i \in DOMAIN parts : AllDigits(parts[i])
        /\ \E i \in DOMAIN parts : parts[i] # <<>>
        /\ Len(parts) = 2 => Len(parts[2]) <= 1

FloatValue(chars) ==
    LET parts == Split(chars, ".")
    IN  10 * DigitsValue(parts[1])
          + (IF Len(parts) = 2 THEN DigitsValue(parts[2]) ELSE 0)

\* <<made, attempts>> in tenths; <<0, 0>> is the (0.0, 0.0) of the except branch
parse_attempts(attempt_str) ==
    IF attempt_str.t # "str" THEN <<0, 0>>            \* .split raises AttributeError
    ELSE LET parts == Split(attempt_str.s, "/")
         IN  IF Len(parts) # 2 THEN <<0, 0>>          \* unpacking raises ValueError
             ELSE IF FloatOk(parts[1]) /\ FloatOk(parts[2])
                  THEN <<FloatValue(parts[1]), FloatValue(parts[2])>>
                  ELSE <<0, 0>>                        \* float() raises ValueError

\* app_back_up.py, lines 207-217: the second float() is given attempt_str,
\* the whole string, in place of attempts_str
parse_attempts_backup(attempt_str) ==
    IF attempt_str.t # "str" THEN <<0, 0>>            \* .split raises AttributeError
    ELSE LET parts == Split(attempt_str.s, "/")
         IN  IF Len(parts) # 2 THEN <<0, 0>>          \* unpacking raises ValueError
             ELSE IF FloatOk(parts[1]) /\ FloatOk(attempt_str.s)
                  THEN <<FloatValue(parts[1]), FloatValue(attempt_str.s)>>
                  ELSE <<0, 0>>                       \* float raises ValueError

-----------------------------------------------------------------------------
(* calculate_team_averages (lines 226-279) *)

Categories == <<"3PM", "PTS", "TREB", "AST", "STL", "BLK", "TO">>

AllCategories == <<"FG%", "FT%", "3PM", "PTS", "TREB", "AST", "STL", "BLK", "TO">>

\* df[df['Player_Name_Normalized'].isin(player_list_normalized)]
FilterRoster(df, player_list_normalized) ==
    SelectSeq(df, LAMBDA row : row.Player_Name_Normalized \in Range(player_list_normalized))

\* the sort with the worst rank first
RECURSIVE InsertByRankDescending(_, _)
InsertByRankDescending(sorted, row) ==
    IF sorted = <<>> THEN <<row>>
    ELSE IF row.R > Head(sorted).R THEN <<row>> \o sorted
         ELSE <<Head(sorted)>> \o InsertByRankDescending(Tail(sorted), row)

\* sort_values(by='R#'): ascending, rows of equal rank keep their order
RECURSIVE InsertByRank(_, _)
InsertByRank(sorted, row) ==
    IF sorted = <<>> THEN <<row>>
    ELSE IF row.R < Head(sorted).R THEN <<row>> \o sorted
         ELSE <<Head(sorted)>> \o InsertByRank(Tail(sorted), row)

RECURSIVE SortByRank(_)
SortByRank(rows) ==
    IF rows = <<>> THEN <<>>
    ELSE InsertByRank(SortByRank(SubSeq(rows, 1, Len(rows) - 1)), rows[Len(rows)])

\* .head(n)
HeadRows(rows, n) == SubSeq(rows, 1, Min(n, Len(rows)))

\* lines 231-238
TopPlayers(df, player_list_normalized, num_top) ==
    HeadRows(SortByRank(FilterRoster(df, player_list_normalized)), num_top)

\* the sum of the rows' own percentages made / attempted, as a quotient
RECURSIVE SumPercentages(_, _)
SumPercentages(rows, column) ==
    IF rows = <<>> THEN <<0, 1>>
    ELSE LET here == parse_attempts(Head(rows)[column])
             rest == SumPercentages(Tail(rows), column)
         IN  IF here[2] = 0 THEN rest
             ELSE <<here[1] * rest[2] + rest[1] * here[2], here[2] * rest[2]>>

\* the mean of the rows' own percentages in place of the two sums
MeanOfPercentages(rows, column) ==
    LET total == SumPercentages(rows, column)
    IN  IF rows = <<>> THEN <<0, 0>> ELSE <<total[1], total[2] * Len(rows)>>

\* lines 240-259: the made and attempted shots summed over the rows
RECURSIVE SumAttempts(_, _)
SumAttempts(rows, column) ==
    IF rows = <<>> THEN <<0, 0>>
    ELSE LET here == parse_attempts(Head(rows)[column])
             rest == SumAttempts(Tail(rows), column)
         IN  <<here[1] + rest[1], here[2] + rest[2]>>

\* lines 262-263
TeamPct(total_made, total_attempts) ==
    IF total_attempts > 0 THEN <<total_made, total_attempts>> ELSE <<0, 1>>

RECURSIVE SumColumn(_, _)
SumColumn(rows, cat) ==
    IF rows = <<>> THEN 0 ELSE Head(rows)[cat] + SumColumn(Tail(rows), cat)

\* the category's sum in place of its mean
CategoryTotal(team_df, cat) == <<SumColumn(team_df, cat), 1>>

\* lines 269-273
CategoryAverage(team_df, cat) ==
    LET total == SumColumn(team_df, cat)
        num_players == Len(team_df)
    IN  IF num_players > 0 THEN <<total, num_players>> ELSE <<0, 1>>

\* lines 265-273: team_averages[cat] for the counting categories
RECURSIVE CountingAverages(_, _)
CountingAverages(team_df, cats) ==
    IF cats = <<>> THEN << >>
    ELSE (Head(cats) :> CategoryAverage(team_df, Head(cats)))
            @@ CountingAverages(team_df, Tail(cats))

\* lines 240-279: the returned dict, category -> quotient, from the sorted
\* and truncated rows
TeamAverages(team_df) ==
    LET fg == SumAttempts(team_df, "FGA")
        ft == SumAttempts(team_df, "FTA")
    IN  CountingAverages(team_df, Categories)
            @@ ("FG%" :> TeamPct(fg[1], fg[2]))
            @@ ("FT%" :> TeamPct(ft[1], ft[2]))

\* app_back_up.py, lines 233-252: the sums, with that file's parse_attempts
RECURSIVE SumAttemptsBackup(_, _)
SumAttemptsBackup(rows, column) ==
    IF rows = <<>> THEN <<0, 0>>
    ELSE LET here == parse_attempts_backup(Head(rows)[column])
             rest == SumAttemptsBackup(Tail(rows), column)
         IN  <<here[1] + rest[1], here[2] + rest[2]>>

\* app_back_up.py, lines 219-270: the same statements as in appwithimages.py
calculate_team_averages_backup(df, player_list_normalized, num_top) ==
    LET team_df == TopPlayers(df, player_list_normalized, num_top)
        fg == SumAttemptsBackup(team_df, "FGA")
        ft == SumAttemptsBackup(team_df, "FTA")
    IN  CountingAverages(team_df, Categories)
            @@ ("FG%" :> TeamPct(fg[1], fg[2]))
            @@ ("FT%" :> TeamPct(ft[1], ft[2]))

\* the returned dict: category -> quotient
calculate_team_averages(df, player_list_normalized, num_top) ==
    TeamAverages(TopPlayers(df, player_list_normalized, num_top))

-----------------------------------------------------------------------------
(* evaluate_trade: rosters and team averages (lines 595-671) *)

\* data.set_index('Player_Name')['Player_Name_Normalized'].to_dict():
\* of several rows with one name the last one stays
player_name_to_normalized(df, player) ==
    LET rows == RowsOf(df, player) IN rows[Len(rows)].Player_Name_Normalized

ColumnOf(rows, column) == [i \in 1..Len(rows) |-> rows[i][column]]

\* [player_name_to_normalized[p] for p in players if p in player_name_to_normalized]
NormalizedList(df, players) ==
    LET known == SelectSeq(players, LAMBDA p : HasPlayer(df, p))
    IN  [i \in 1..Len(known) |-> player_name_to_normalized(df, known[i])]

\* a current roster of every player of the score table
CurrentRosterOfAll(df, team_name) == NormalizedList(df, ColumnOf(df, "Player_Name"))

\* lines 599-603: data[data['Takım'] == team_name]['Player_Name'], normalized
CurrentRoster(df, team_name) ==
    NormalizedList(df, ColumnOf(SelectSeq(df, LAMBDA row : row.Takim = team_name),
                                "Player_Name"))

\* the after-trade roster that keeps the outgoing players
AfterRosterKeepsOutgoing(current_normalized, selected_normalized, incoming_normalized) ==
    current_normalized \o incoming_normalized

\* lines 610-611
AfterRoster(current_normalized, selected_normalized, incoming_normalized) ==
    SelectSeq(current_normalized, LAMBDA p : p \notin Range(selected_normalized))
        \o incoming_normalized

TableNames == <<"regular", "projection", "last14", "last30">>

\* round_value: 3 decimals for FG% and FT%, 2 for the other categories
RoundUnit(category) == IF category \in {"FG%", "FT%"} THEN 1000 ELSE 100

\* round(after - before) of two quotients, for either sign of the difference
RoundedDifference(after, before, unit, ties_up) ==
    LET num == after[1] * before[2] - before[1] * after[2]
        den == after[2] * before[2]
    IN  IF num >= 0 THEN Round(<<num, den>>, unit, ties_up)
        ELSE 0 - Round(<<0 - num, den>>, unit, ties_up)

\* the table with Diff computed from the unrounded averages
create_avg_dataframe_diff_first(avg_before, avg_after, ties_up) ==
    [cat \in Range(AllCategories) |->
        [Before |-> Round(avg_before[cat], RoundUnit(cat), ties_up),
         After  |-> Round(avg_after[cat], RoundUnit(cat), ties_up),
         Diff   |-> RoundedDifference(avg_after[cat], avg_before[cat], RoundUnit(cat), ties_up)]]

\* create_avg_dataframe: Before and After rounded, Diff from the rounded values
create_avg_dataframe(avg_before, avg_after, ties_up) ==
    [cat \in Range(AllCategories) |->
        LET before == Round(avg_before[cat], RoundUnit(cat), ties_up)
            after  == Round(avg_after[cat], RoundUnit(cat), ties_up)
        IN  [Before |-> before, After |-> after, Diff |-> after - before]]

AvgTies(avg) == UNION {OpenTies(avg[cat], RoundUnit(cat)) : cat \in Range(AllCategories)}

-----------------------------------------------------------------------------
(* evaluate_trade as a whole: the set of results it can render.  now is    *)
(* datetime.now() in days since the season start, read by calculate_week(). *)

\* evaluate_trade from line 291 on, for players the loops raise nothing on:
\* the set of results it can render
TradeResults(score_df, team1_players, team2_players, team1_injury_adjustments, team2_injury_adjustments, team1_name, team2_name, stats, num_top, week) ==
    LET players1 == TeamDetails(score_df, team1_players, team1_injury_adjustments, week)
        players2 == TeamDetails(score_df, team2_players, team2_injury_adjustments, week)
        slots1 == EmptySlots(team1_players, team2_players)
        slots2 == EmptySlots(team2_players, team1_players)
        team1_scores == ScoresOf(players1) \o Repeat(Points(MinScore), slots1)
        team2_scores == ScoresOf(players2) \o Repeat(Points(MinScore), slots2)
        team1_total == SumSeq(ScoresOf(players1)) + Points(MinScore) * slots1
        team2_total == SumSeq(ScoresOf(players2)) + Points(MinScore) * slots2
        team1_details == players1 \o Repeat(EmptySlotDetail, slots1)
        team2_details == players2 \o Repeat(EmptySlotDetail, slots2)
    IN
    IF ZeroTotal(team1_total, team2_total)
    THEN {[status |-> "zero_total", week |-> week,
           warning |-> "Both teams must have at least one player."]}
    ELSE
    LET exact == TradeRatioExact(team1_total, team2_total)
        team1_regular_total == safe_sum_regular(team1_details)
        team2_regular_total == safe_sum_regular(team2_details)
        team1_last14_total == safe_sum_last14(team1_details)
        team2_last14_total == safe_sum_last14(team2_details)
        team1_last30_total == safe_sum_last30(team1_details)
        team2_last30_total == safe_sum_last30(team2_details)
        current1 == CurrentRoster(score_df, team1_name)
        current2 == CurrentRoster(score_df, team2_name)
        selected1 == NormalizedList(score_df, team1_players)
        selected2 == NormalizedList(score_df, team2_players)
        after1 == AfterRoster(current1, selected1, selected2)
        after2 == AfterRoster(current2, selected2, selected1)
        roster == [side \in {1, 2} |->
                     [before |-> IF side = 1 THEN current1 ELSE current2,
                      after  |-> IF side = 1 THEN after1 ELSE after2]]
        avg == Eager([side \in {1, 2} |-> Eager([tbl \in Range(TableNames) |->
                  [before |-> calculate_team_averages(stats[tbl], roster[side].before, num_top),
                   after  |-> calculate_team_averages(stats[tbl], roster[side].after, num_top)]])])
        ties == OpenTies(exact, 100)
                \cup OpenTies(compute_ratio_exact(team1_regular_total, team2_regular_total), 100)
                \cup OpenTies(compute_ratio_exact(team1_last14_total, team2_last14_total), 100)
                \cup OpenTies(compute_ratio_exact(team1_last30_total, team2_last30_total), 100)
                \cup UNION {AvgTies(avg[side][tbl].before) \cup AvgTies(avg[side][tbl].after) :
                              side \in {1, 2}, tbl \in Range(TableNames)}
    IN
    {LET trade_ratio == Round(exact, 100, ties_up)
     IN [status              |-> "done",
         week                |-> week,
         team1_scores        |-> team1_scores,
         team2_scores        |-> team2_scores,
         team1_details       |-> team1_details,
         team2_details       |-> team2_details,
         team1_total         |-> team1_total,
         team2_total         |-> team2_total,
         trade_ratio         |-> trade_ratio,
         team1_regular_total |-> team1_regular_total,
         team2_regular_total |-> team2_regular_total,
         team1_last14_total  |-> team1_last14_total,
         team2_last14_total  |-> team2_last14_total,
         team1_last30_total  |-> team1_last30_total,
         team2_last30_total  |-> team2_last30_total,
         regular_trade_ratio |-> compute_ratio(team1_regular_total, team2_regular_total, ties_up),
         last14_trade_ratio  |-> compute_ratio(team1_last14_total, team2_last14_total, ties_up),
         last30_trade_ratio  |-> compute_ratio(team1_last30_total, team2_last30_total, ties_up),
         regular_dominant    |-> dominant_team(team1_regular_total, team2_regular_total,
                                               team1_name, team2_name),
         last14_dominant     |-> dominant_team(team1_last14_total, team2_last14_total,
                                               team1_name, team2_name),
         last30_dominant     |-> dominant_team(team1_last30_total, team2_last30_total,
                                               team1_name, team2_name),
         trade_status_text   |-> TradeStatus(trade_ratio),
         roster              |-> roster,
         avg                 |-> avg,
         avg_tables          |-> [side \in {1, 2} |-> [tbl \in Range(TableNames) |->
                                   create_avg_dataframe(avg[side][tbl].before,
                                                        avg[side][tbl].after, ties_up)]],
         ties_up             |-> ties_up]
     : ties_up \in SUBSET ties}

\* the indices of the players calculate_score returns a score for
Scorable(df, players, week) ==
    {i \in DOMAIN players : calculate_score_raises(players[i], week, df) = "none"}

RECURSIVE Restrict(_, _, _)
Restrict(s, keep, i) ==
    IF i > Len(s) THEN <<>>
    ELSE (IF i \in keep THEN <<s[i]>> ELSE <<>>) \o Restrict(s, keep, i + 1)

\* an evaluation that leaves out the players calculate_score raises on
evaluate_trade_skipping_errors(score_df, team1_players, team2_players, team1_injury_adjustments, team2_injury_adjustments, team1_name, team2_name, stats, num_top, now) ==
    LET week == calculate_week(now)
        keep1 == Scorable(score_df, team1_players, week)
        keep2 == Scorable(score_df, team2_players, week)
    IN  TradeResults(score_df, Restrict(team1_players, keep1, 1), Restrict(team2_players, keep2, 1),
                     Restrict(team1_injury_adjustments, keep1, 1),
                     Restrict(team2_injury_adjustments, keep2, 1),
                     team1_name, team2_name, stats, num_top, week)

evaluate_trade(score_df, team1_players, team2_players, team1_injury_adjustments, team2_injury_adjustments, team1_name, team2_name, stats, num_top, now) ==
    LET week == calculate_week(now)
        raised1 == LoopRaises(score_df, team1_players, team1_injury_adjustments, week)
        raised2 == LoopRaises(score_df, team2_players, team2_injury_adjustments, week)
        raised == IF raised1 # "none" THEN raised1 ELSE raised2
    IN  IF raised # "none" THEN {[status |-> raised, week |-> week]}
        ELSE TradeResults(score_df, team1_players, team2_players,
                          team1_injury_adjustments, team2_injury_adjustments,
                          team1_name, team2_name, stats, num_top, week)

-----------------------------------------------------------------------------
(* The tables the dashboard has loaded *)

FreeAgent == "Free Agent"

ScoreRow(name, normalized, regular, projection, last14, last30, team) ==
    [Player_Name |-> name, Player_Name_Normalized |-> normalized,
     Regular |-> regular, Projection |-> projection,
     Last14 |-> last14, Last30 |-> last30, Takim |-> team]

\* merged_scores.xlsx joined with the rosters: two fantasy teams of two
\* players and one player on no roster.  read_excel gives NaN for an empty
\* cell (and for a cell that says N/A): "P. One" has no Last30 value and
\* "P. Two" neither a Last14 nor a Last30 value.
ScoreTable ==
    << ScoreRow("Player X", "player x", Num(10), Num(8), Num(9), Num(11), "Team A"),
       ScoreRow("P. One", "p one", Num(11), Num(10), Num(12), NaN, "Team A"),
       ScoreRow("Player Y", "player y", Num(6), Num(6), Num(3), Num(6), "Team B"),
       ScoreRow("P. Two", "p two", Num(10), Num(10), NaN, NaN, "Team B"),
       ScoreRow("Free", "free", Num(5), Num(5), Num(5), Num(5), FreeAgent) >>

\* a league of two one-player teams whose players are worth very different
\* amounts: the score table is not validated, so any number can stand in it.
\* The file has no Last14 and no Last30 column: player_data.get(...) gives
\* 'N/A' for every player.
LopsidedTable ==
    << ScoreRow("Zed", "zed", Num(1), Num(0), NA, NA, "Team C"),
       ScoreRow("Huge", "huge", Num(500), Num(500), NA, NA, "Team D") >>

\* a league whose roster files list one player on both teams: the merge
\* with the rosters gives the player one row per team
DuplicateTable ==
    << ScoreRow("Twin", "twin", Num(7), Num(7), NA, NA, "Team E"),
       ScoreRow("Twin", "twin", Num(7), Num(7), NA, NA, "Team F") >>

\* a league of one team
SoloTable ==
    << ScoreRow("Solo", "solo", Num(7), Num(7), NA, NA, "Team G"),
       ScoreRow("Loose", "loose", Num(5), Num(5), NA, NA, FreeAgent) >>

ScoreTables == {ScoreTable, LopsidedTable, DuplicateTable, SoloTable}

CategoryIndex(cat) == CHOOSE i \in DOMAIN Categories : Categories[i] = cat

\* a row of a statistics table; counts are the seven counting categories in
\* the order of Categories
StatRow(normalized, rank, fga, fta, counts) ==
    [Player_Name_Normalized |-> normalized, R |-> rank, FGA |-> fga, FTA |-> fta]
        @@ [cat \in Range(Categories) |-> counts[CategoryIndex(cat)]]

RegularSeasonTable ==
    << StatRow("huge", 1, Text(<<"9", ".", "5", "/", "1", "9">>), Text(<<"8", "/", "9">>),
               <<3, 31, 11, 9, 2, 1, 4>>),
       StatRow("player x", 2, Text(<<"5", "/", "1", "0">>), Text(<<"4", "/", "5">>),
               <<2, 20, 5, 5, 1, 1, 2>>),
       StatRow("p two", 3, Text(<<"1", "/", "1", "0">>), Text(<<"0", "/", "0">>),
               <<1, 14, 9, 2, 1, 2, 1>>),
       StatRow("p one", 4, Text(<<"6", "/", "1", "2">>), Text(<<"2", "/", "4">>),
               <<0, 15, 8, 3, 2, 0, 3>>),
       StatRow("free", 5, Text(<<"3", "/", "7">>), Text(<<"1", "/", "2">>),
               <<1, 8, 3, 3, 1, 0, 1>>),
       StatRow("player y", 6, Text(<<"4", "/", "9">>), Text(<<"3", "/", "3">>),
               <<2, 11, 4, 6, 0, 0, 2>>),
       StatRow("zed", 7, Text(<<"1", "/", "3">>), Text(<<"x">>),
               <<0, 2, 1, 1, 0, 0, 1>>) >>

\* the projections rank the same players in another order
RestOfSeasonTable ==
    << StatRow("player y", 6, Text(<<"4", "/", "8">>), Text(<<"3", "/", "4">>),
               <<2, 12, 4, 6, 1, 0, 2>>),
       StatRow("p one", 1, Text(<<"7", "/", "1", "2">>), Text(<<"2", "/", "4">>),
               <<1, 17, 8, 3, 2, 0, 3>>),
       StatRow("huge", 2, Text(<<"9", "/", "1", "8">>), Text(<<"8", "/", "9">>),
               <<3, 30, 10, 9, 2, 1, 4>>),
       StatRow("p two", 4, Text(<<"2", "/", "1", "0">>), Text(<<"1", "/", "1">>),
               <<1, 13, 9, 2, 1, 2, 1>>),
       StatRow("player x", 3, Text(<<"5", "/", "1", "1">>), Text(<<"4", "/", "5">>),
               <<2, 19, 5, 5, 1, 1, 2>>),
       StatRow("zed", 7, Text(<<"1", "/", "4">>), Text(<<"0", "/", "1">>),
               <<0, 3, 1, 1, 0, 0, 1>>) >>

\* a recent window lacks the players who did not play in it
Last14Table ==
    << StatRow("player x", 1, Text(<<"6", "/", "1", "0">>), Text(<<"5", "/", "5">>),
               <<3, 24, 6, 5, 1, 1, 2>>),
       StatRow("player y", 2, Text(<<"5", "/", "9">>), NaNCell,
               <<2, 13, 4, 7, 0, 0, 2>>),
       StatRow("huge", 3, Text(<<"8", "/", "2", "0">>), Text(<<"7", "/", "9">>),
               <<2, 27, 10, 8, 2, 1, 5>>) >>

Last30Table ==
    << StatRow("p one", 1, Text(<<"6", "/", "1", "1">>), Text(<<"0", "/", "0">>),
               <<0, 16, 8, 3, 2, 0, 3>>),
       StatRow("player x", 2, Text(<<"5", "/", "1", "0">>), Text(<<"0", "/", "0">>),
               <<2, 21, 5, 5, 1, 1, 2>>),
       StatRow("zed", 3, Text(<<"1", "/", "2">>), Text(<<"1", "/", "2", "/", "3">>),
               <<0, 2, 1, 1, 0, 0, 1>>),
       StatRow("p two", 4, Text(<<"1", "/", "1", "0">>), Text(<<"1", "/", "1">>),
               <<1, 14, 9, 2, 1, 2, 1>>) >>

-----------------------------------------------------------------------------
(* main(): the Trade Evaluation tab (lines 1183-1337) *)

injury_options == ("No Injury" :> 0) @@ ("IL - Up to 4 Weeks (-1)" :> (0 - 1))
                    @@ ("IL - Indefinitely (-2)" :> (0 - 2))

\* the default of a selectbox is its first option
NoInjury == "No Injury"

\* number_input(min_value=1, max_value=18, value=15): the default
DefaultTop == 15

\* data['Takım'].unique().tolist() without 'Free Agent': first appearances
RECURSIVE Unique(_)
Unique(s) ==
    IF s = <<>> THEN <<>>
    ELSE LET init == Unique(SubSeq(s, 1, Len(s) - 1))
         IN  IF s[Len(s)] \in Range(init) THEN init ELSE Append(init, s[Len(s)])

UniqueTeams(df) ==
    SelectSeq(Unique(ColumnOf(df, "Takim")), LAMBDA team : team # FreeAgent)

\* data[data['Takım'] == team]['Player_Name'].tolist(): the options of a multiselect
PlayersAvailable(df, team) ==
    ColumnOf(SelectSeq(df, LAMBDA row : row.Takim = team), "Player_Name")

\* the adjustments in the reverse of the selection order
InjuryAdjustmentsReversed(side, selected, status) ==
    [idx \in 1..Len(selected) |->
        injury_options[status[<<side, selected[Len(selected) + 1 - idx]>>]]]

\* lines 1256-1295: one adjustment per selected player, in selection order
InjuryAdjustments(side, selected, status) ==
    [idx \in 1..Len(selected) |-> injury_options[status[<<side, selected[idx]>>]]]

\* the run with the check for players selected on both sides (lines 1316-1319)
\* left out
MainWithoutDuplicateCheck(df, stats, t1, t2, t1_selected, t2_selected, status, num_top, submitted, now) ==
    LET team1_injury_adjustments ==
            IF t1_selected # <<>> \/ t2_selected # <<>>
            THEN InjuryAdjustments(1, t1_selected, status) ELSE <<>>
        team2_injury_adjustments ==
            IF t1_selected # <<>> \/ t2_selected # <<>>
            THEN InjuryAdjustments(2, t2_selected, status) ELSE <<>>
    IN  IF Len(UniqueTeams(df)) < 2 THEN {[status |-> "not_enough_teams"]}
        ELSE IF t1 = t2 THEN {[status |-> "same_team"]}
        ELSE IF ~submitted THEN {[status |-> "idle"]}
        ELSE IF t1_selected = <<>> /\ t2_selected = <<>> THEN {[status |-> "no_players"]}
        ELSE evaluate_trade(df, t1_selected, t2_selected,
                            team1_injury_adjustments, team2_injury_adjustments,
                            t1, t2, stats, num_top, now)

\* the run with the check for two empty selections (lines 1321-1322) left out
MainWithoutPlayersCheck(df, stats, t1, t2, t1_selected, t2_selected, status, num_top, submitted, now) ==
    IF Len(UniqueTeams(df)) < 2 THEN {[status |-> "not_enough_teams"]}
    ELSE IF t1 = t2 THEN {[status |-> "same_team"]}
    ELSE IF ~submitted THEN {[status |-> "idle"]}
    ELSE IF Range(t1_selected) \cap Range(t2_selected) # {} THEN {[status |-> "duplicate_players"]}
    ELSE evaluate_trade(df, t1_selected, t2_selected,
                        InjuryAdjustments(1, t1_selected, status),
                        InjuryAdjustments(2, t2_selected, status),
                        t1, t2, stats, num_top, now)

\* One run of the script from line 1186 on: the set of things it can render.
Main(df, stats, t1, t2, t1_selected, t2_selected, status, num_top, submitted, now) ==
    LET unique_teams == UniqueTeams(df)
        team1_injury_adjustments ==
            IF t1_selected # <<>> \/ t2_selected # <<>>
            THEN InjuryAdjustments(1, t1_selected, status) ELSE <<>>
        team2_injury_adjustments ==
            IF t1_selected # <<>> \/ t2_selected # <<>>
            THEN InjuryAdjustments(2, t2_selected, status) ELSE <<>>
        duplicate_players == Range(t1_selected) \cap Range(t2_selected)
    IN  IF Len(unique_teams) < 2 THEN {[status |-> "not_enough_teams"]}
        ELSE IF t1 = t2 THEN {[status |-> "same_team"]}
        ELSE IF ~submitted THEN {[status |-> "idle"]}
        ELSE IF duplicate_players # {} THEN {[status |-> "duplicate_players"]}
        ELSE IF t1_selected = <<>> /\ t2_selected = <<>> THEN {[status |-> "no_players"]}
        ELSE evaluate_trade(df, t1_selected, t2_selected,
                            team1_injury_adjustments, team2_injury_adjustments,
                            t1, t2, stats, num_top, now)

Stats == [regular |-> df_regular_season, projection |-> df_rest_of_season,
          last14 |-> df_last14, last30 |-> df_last30]

\* a rerun of the script that a widget change triggers: the button is not pressed
Rerun(t1, t2, t1_selected, t2_selected, status, num_top) ==
    result' \in Main(data, Stats, t1, t2, t1_selected, t2_selected, status, num_top, FALSE, 0)

-----------------------------------------------------------------------------
(* The user's actions on the dashboard *)

\* how many players a side selects at most in the model
MaxSelected == 2

\* the values of the number input the model tries
TopChoices == {2, DefaultTop}

\* datetime.now() at the runs the model tries, in days since the season
\* start: weeks 1 and 10
Dates == {0, 63}

NoCall == [fn |-> "none"]

Remove(s, x) == SelectSeq(s, LAMBDA y : y # x)

StatusOf(t1_selected, t2_selected) ==
    [key \in ({1} \X Range(t1_selected)) \cup ({2} \X Range(t2_selected)) |->
        IF key \in DOMAIN injury_status THEN injury_status[key] ELSE NoInjury]

\* the team selectboxes are rendered: the league has two teams (line 1190)
TeamsRendered == Len(UniqueTeams(data)) >= 2

\* the value of team1 and team2 while the selectboxes are not rendered
NoTeam == ""

\* the first run of the script: the selectboxes at their defaults, the first
\* and the second team, nothing selected, the button not pressed
Init ==
    /\ data \in ScoreTables
    /\ df_regular_season = RegularSeasonTable
    /\ df_rest_of_season = RestOfSeasonTable
    /\ df_last14 = Last14Table
    /\ df_last30 = Last30Table
    /\ team1 = IF TeamsRendered THEN UniqueTeams(data)[1] ELSE NoTeam
    /\ team2 = IF TeamsRendered THEN UniqueTeams(data)[2] ELSE NoTeam
    /\ team1_selected = <<>>
    /\ team2_selected = <<>>
    /\ injury_status = << >>
    /\ num_top_players = DefaultTop
    /\ result \in Main(data, Stats, team1, team2, <<>>, <<>>, << >>, DefaultTop, FALSE, 0)
    /\ call = NoCall

\* a change of a team selectbox; the multiselect of that side is a new
\* widget (its label names the team) and starts empty
SelectTeam1(team) ==
    /\ TeamsRendered
    /\ team # team1
    /\ team1' = team
    /\ team1_selected' = <<>>
    /\ team2_selected' = IF team = team2 THEN <<>> ELSE team2_selected
    /\ injury_status' = StatusOf(<<>>, team2_selected')
    /\ Rerun(team, team2, <<>>, team2_selected', injury_status', num_top_players)
    /\ UNCHANGED <<tables, team2, num_top_players, call>>

SelectTeam2(team) ==
    /\ TeamsRendered
    /\ team # team2
    /\ team2' = team
    /\ team2_selected' = <<>>
    /\ team1_selected' = IF team = team1 THEN <<>> ELSE team1_selected
    /\ injury_status' = StatusOf(team1_selected', <<>>)
    /\ Rerun(team1, team, team1_selected', <<>>, injury_status', num_top_players)
    /\ UNCHANGED <<tables, team1, num_top_players, call>>

SelectPlayer1(player) ==
    /\ team1 # team2
    /\ player \in Range(PlayersAvailable(data, team1)) \ Range(team1_selected)
    /\ Len(team1_selected) < MaxSelected
    /\ team1_selected' = Append(team1_selected, player)
    /\ injury_status' = StatusOf(team1_selected', team2_selected)
    /\ Rerun(team1, team2, team1_selected', team2_selected, injury_status', num_top_players)
    /\ UNCHANGED <<tables, team1, team2, team2_selected, num_top_players, call>>

SelectPlayer2(player) ==
    /\ team1 # team2
    /\ player \in Range(PlayersAvailable(data, team2)) \ Range(team2_selected)
    /\ Len(team2_selected) < MaxSelected
    /\ team2_selected' = Append(team2_selected, player)
    /\ injury_status' = StatusOf(team1_selected, team2_selected')
    /\ Rerun(team1, team2, team1_selected, team2_selected', injury_status', num_top_players)
    /\ UNCHANGED <<tables, team1, team2, team1_selected, num_top_players, call>>

DeselectPlayer1(player) ==
    /\ player \in Range(team1_selected)
    /\ team1_selected' = Remove(team1_selected, player)
    /\ injury_status' = StatusOf(team1_selected', team2_selected)
    /\ Rerun(team1, team2, team1_selected', team2_selected, injury_status', num_top_players)
    /\ UNCHANGED <<tables, team1, team2, team2_selected, num_top_players, call>>

DeselectPlayer2(player) ==
    /\ player \in Range(team2_selected)
    /\ team2_selected' = Remove(team2_selected, player)
    /\ injury_status' = StatusOf(team1_selected, team2_selected')
    /\ Rerun(team1, team2, team1_selected, team2_selected', injury_status', num_top_players)
    /\ UNCHANGED <<tables, team1, team2, team1_selected, num_top_players, call>>

SetInjuryStatus(key, option) ==
    /\ key \in DOMAIN injury_status
    /\ injury_status[key] # option
    /\ injury_status' = [injury_status EXCEPT ![key] = option]
    /\ Rerun(team1, team2, team1_selected, team2_selected, injury_status', num_top_players)
    /\ UNCHANGED <<tables, team1, team2, team1_selected, team2_selected,
                   num_top_players, call>>

SetNumTopPlayers(n) ==
    /\ team1 # team2
    /\ n # num_top_players
    /\ num_top_players' = n
    /\ Rerun(team1, team2, team1_selected, team2_selected, injury_status, n)
    /\ UNCHANGED <<tables, team1, team2, team1_selected, team2_selected,
                   injury_status, call>>

\* the Evaluate Trade button: a rerun with submitted = True
PressEvaluate(now) ==
    /\ team1 # team2
    /\ result' \in Main(data, Stats, team1, team2, team1_selected, team2_selected,
                        injury_status, num_top_players, TRUE, now)
    /\ UNCHANGED <<tables, widgets, call>>

Next ==
    \/ \E team \in Range(UniqueTeams(data)) : SelectTeam1(team)
    \/ \E team \in Range(UniqueTeams(data)) : SelectTeam2(team)
    \/ \E player \in Range(ColumnOf(data, "Player_Name")) : SelectPlayer1(player)
    \/ \E player \in Range(ColumnOf(data, "Player_Name")) : SelectPlayer2(player)
    \/ \E player \in Range(ColumnOf(data, "Player_Name")) : DeselectPlayer1(player)
    \/ \E player \in Range(ColumnOf(data, "Player_Name")) : DeselectPlayer2(player)
    \/ \E key \in DOMAIN injury_status, option \in DOMAIN injury_options :
          SetInjuryStatus(key, option)
    \/ \E n \in TopChoices : SetNumTopPlayers(n)
    \/ \E now \in Dates : PressEvaluate(now)

Spec == Init /\ [][Next]_vars

-----------------------------------------------------------------------------
(* calculate_score and the score loop of evaluate_trade on their own: one  *)
(* player, every regular and projection score, week and adjustment of the  *)
(* bounds                                                                  *)

\* scores from -LowPoints to MaxPoints whole points, weeks 0 to MaxWeek
LowPoints == 1

MaxPoints == 10

MaxWeek == 22

ScoreValues == (0 - LowPoints)..MaxPoints

\* the Regular and Projection cells tried: the numbers, an empty cell and a text
ScoreCells == {Num(v) : v \in ScoreValues} \cup {NaN, Text(<<"x">>)}

\* the names asked for: the player of the table and one it does not have
ScoreNames == {"Player", "Nobody"}

Adjustments == {injury_options[option] : option \in DOMAIN injury_options}

Idle ==
    /\ team1 = "Team A"
    /\ team2 = "Team B"
    /\ team1_selected = <<>>
    /\ team2_selected = <<>>
    /\ injury_status = << >>
    /\ num_top_players = DefaultTop
    /\ result = [status |-> "idle"]

InitScore ==
    /\ \E regular \in ScoreCells, projection \in ScoreCells :
          data = <<ScoreRow("Player", "player", regular, projection, NA, NA, "Team A")>>
    /\ df_regular_season = <<>>
    /\ df_rest_of_season = <<>>
    /\ df_last14 = <<>>
    /\ df_last30 = <<>>
    /\ Idle
    /\ \E player_name \in ScoreNames, week \in 0..MaxWeek, injury_adjustment \in Adjustments :
          call = [fn |-> "calculate_score", pc |-> "called", player_name |-> player_name,
                  week |-> week, injury_adjustment |-> injury_adjustment,
                  raised |-> "none", score |-> 0, adjusted |-> 0]

\* score = calculate_score(player, week, data): it returns a score or raises
CallCalculateScore ==
    /\ call.fn = "calculate_score"
    /\ call.pc = "called"
    /\ LET raised == calculate_score_raises(call.player_name, call.week, data)
       IN  call' = IF raised # "none"
                   THEN [call EXCEPT !.pc = "raised", !.raised = raised]
                   ELSE [call EXCEPT !.pc = "scored",
                                     !.score = calculate_score(call.player_name, call.week, data)]
    /\ UNCHANGED <<tables, widgets, result>>

\* score += injury_adjustment; score = max(2.00, score)
AdjustScore ==
    /\ call.fn = "calculate_score"
    /\ call.pc = "scored"
    /\ call' = [call EXCEPT !.pc = "adjusted",
                            !.adjusted = AdjustedScore(call.player_name, call.injury_adjustment,
                                                       call.week, data)]
    /\ UNCHANGED <<tables, widgets, result>>

NextScore == CallCalculateScore \/ AdjustScore

SpecScore == InitScore /\ [][NextScore]_vars

-----------------------------------------------------------------------------
(* calculate_team_averages on its own: every table, roster and N of the    *)
(* bounds.  The table has unique ranks.                                    *)

\* the table has the rows of players a, b, c in this order; N is 1..MaxN
MaxN == 3

AvgPlayers == <<"a", "b", "c">>

Permutations3 == {p \in [1..3 -> 1..3] : \A i, j \in 1..3 : i # j => p[i] # p[j]}

\* the FGA cells tried: 5/10, 1/10, 1/20, 0/0 and a cell that does not parse
ShotStrings ==
    { Text(<<"5", "/", "1", "0">>), Text(<<"1", "/", "1", "0">>),
      Text(<<"1", "/", "2", "0">>), Text(<<"0", "/", "0">>), Text(<<"x", "/", "3">>) }

\* the FTA columns tried: nobody attempted a free throw, or everybody did
FreeThrowColumns ==
    { [i \in 1..3 |-> Text(<<"0", "/", "0">>)],
      <<Text(<<"3", "/", "4">>), Text(<<"1", ".", "5", "/", "2">>), NaNCell>> }

CountsOf(i) == <<i, 10 * i + 1, 7 - i, i * i, 1, i % 2, 3>>

\* the rosters tried: the empty one, and lists of a, b, c in some order
\* with or without a player the table does not have
Rosters ==
    { <<>>, <<"zz">>, <<"a", "zz">>, <<"zz", "b">>, <<"c">>, <<"b", "a">>,
      <<"a", "c", "zz">>, <<"c", "b">>, <<"c", "a", "b">> }

InitAvg ==
    /\ data = <<>>
    /\ \E rank \in Permutations3, fga \in [1..3 -> ShotStrings], fta \in FreeThrowColumns :
          df_regular_season =
              [i \in 1..3 |-> StatRow(AvgPlayers[i], rank[i], fga[i], fta[i], CountsOf(i))]
    /\ df_rest_of_season = <<>>
    /\ df_last14 = <<>>
    /\ df_last30 = <<>>
    /\ Idle
    /\ \E roster \in Rosters, n \in 1..MaxN :
          call = [fn |-> "calculate_team_averages", pc |-> "called",
                  player_list_normalized |-> roster, num_top |-> n]

CallTeamAverages ==
    /\ call.fn = "calculate_team_averages"
    /\ call.pc = "called"
    /\ call' = [fn |-> call.fn, pc |-> "returned",
                player_list_normalized |-> call.player_list_normalized,
                num_top |-> call.num_top,
                team_averages |-> calculate_team_averages(df_regular_season,
                                      call.player_list_normalized, call.num_top)]
    /\ UNCHANGED <<tables, widgets, result>>

NextAvg == CallTeamAverages

SpecAvg == InitAvg /\ [][NextAvg]_vars

-----------------------------------------------------------------------------
(* evaluate_trade called directly, twice with the same arguments: on       *)
(* players the table has and has not, with complete and incomplete rows,   *)
(* at two readings of the clock                                            *)

\* the score table of the dashboard with two more players: "Blank" has empty
\* Regular and Last14 cells, "Texted" a text in its Regular cell
EvalTable ==
    ScoreTable \o
    << ScoreRow("Blank", "blank", NaN, Num(8), NaN, Num(4), "Team A"),
       ScoreRow("Texted", "texted", Text(<<"x">>), Num(5), Num(5), Num(5), "Team B") >>

\* the player lists tried for the two sides; the table has no "Nobody"
EvalPlayers1 ==
    { <<>>, <<"Player X">>, <<"Player X", "P. One">>, <<"Nobody">>,
      <<"Player X", "Nobody">>, <<"Blank">> }

EvalPlayers2 == { <<>>, <<"Player Y">>, <<"P. Two">>, <<"Texted">> }

\* datetime.now() at the two calls, in days since the season start: in
\* week 1, and on two days of week 10
EvalDates == {0, 63, 69}

NotCalled == [status |-> "none"]

InitEval ==
    /\ data = EvalTable
    /\ df_regular_season = RegularSeasonTable
    /\ df_rest_of_season = RestOfSeasonTable
    /\ df_last14 = Last14Table
    /\ df_last30 = Last30Table
    /\ Idle
    /\ \E team1_players \in EvalPlayers1, team2_players \in EvalPlayers2 :
       \E team1_injury_adjustments \in [DOMAIN team1_players -> Adjustments],
          team2_injury_adjustments \in [DOMAIN team2_players -> Adjustments],
          now1 \in EvalDates, now2 \in EvalDates :
          call = [fn |-> "evaluate_trade", pc |-> "called",
                  team1_players |-> team1_players,
                  team2_players |-> team2_players,
                  team1_injury_adjustments |-> team1_injury_adjustments,
                  team2_injury_adjustments |-> team2_injury_adjustments,
                  now1 |-> now1, now2 |-> now2,
                  first |-> NotCalled, second |-> NotCalled]

\* what a call with the arguments of the record renders at the time now
EvaluateCall(now) ==
    evaluate_trade(data, call.team1_players, call.team2_players,
                   call.team1_injury_adjustments, call.team2_injury_adjustments,
                   team1, team2, Stats, num_top_players, now)

CallEvaluateTrade ==
    /\ call.fn = "evaluate_trade"
    /\ call.pc = "called"
    /\ \E r \in EvaluateCall(call.now1) :
          call' = [call EXCEPT !.pc = "once", !.first = r]
    /\ UNCHANGED <<tables, widgets, result>>

\* the same call again, later
CallEvaluateTradeAgain ==
    /\ call.fn = "evaluate_trade"
    /\ call.pc = "once"
    /\ \E r \in EvaluateCall(call.now2) :
          call' = [call EXCEPT !.pc = "twice", !.second = r]
    /\ UNCHANGED <<tables, widgets, result>>

NextEval == CallEvaluateTrade \/ CallEvaluateTradeAgain

SpecEval == InitEval /\ [][NextEval]_vars

-----------------------------------------------------------------------------
(* Claims about calculate_score (under SpecScore) *)

ScoredCall == call.fn = "calculate_score" /\ call.pc \in {"scored", "adjusted"}

\* the unfloored blend of the one player of data, in twentieths:
\* (20 - w) * projection + w * regular
Blend20 == (20 - call.week) * data[1].Projection.v + call.week * data[1].Regular.v

NumericScores == IsNumber(data[1].Regular) /\ IsNumber(data[1].Projection)

C2_FloorInvariant ==
    /\ (ScoredCall /\ call.week \in 0..20) => call.score >= 2 * 20
    /\ (call.fn = "calculate_score" /\ call.pc = "adjusted") =>
            /\ call.injury_adjustment \in {0, 0 - 1, 0 - 2}
            /\ call.adjusted >= 2 * 20

\* an injured player whose blend was above the floor and whose adjusted
\* score would lie below it without the second floor
C2_Witness ==
    /\ call.fn = "calculate_score" /\ call.pc = "adjusted"
    /\ NumericScores
    /\ call.week \in 0..20
    /\ call.injury_adjustment < 0
    /\ call.score > 2 * 20
    /\ call.score + 20 * call.injury_adjustment < 2 * 20
    /\ call.adjusted = 2 * 20

-----------------------------------------------------------------------------
(* Claims about evaluate_trade (under Spec) *)

Done == result.status = "done"

SmallerTotal == Min(result.team1_total, result.team2_total)

LargerTotal == Max(result.team1_total, result.team2_total)

\* C3 as claimed: for all positive team totals the overall trade ratio,
\* rounded to 2 decimals, is never 0.00 and never greater than 1.00.
C3_RatioInHalfOpenUnitInterval ==
    Done => result.trade_ratio > 0 /\ result.trade_ratio <= 100

\* C3 as amended: for all positive team totals the overall trade ratio is
\* between 0.00 and 1.00, both included, and it is at least 0.01 whenever the
\* smaller total is more than 1/200 of the larger one.
C3_RatioInUnitInterval ==
    Done =>
        /\ result.team1_total > 0 /\ result.team2_total > 0
        /\ result.trade_ratio >= 0 /\ result.trade_ratio <= 100
        /\ 200 * SmallerTotal > LargerTotal => result.trade_ratio >= 1

\* an evaluation of two sides of different value whose ratio lies strictly
\* between the two ends
C3_Witness ==
    /\ Done
    /\ team1_selected # <<>> /\ team2_selected # <<>>
    /\ result.team1_total > result.team2_total
    /\ result.trade_ratio > 0 /\ result.trade_ratio < 100

\* C4 as claimed: the overall trade ratio is 1.00 exactly when the two
\* sides' totals are exactly equal.
C4_RatioOneIffEqualTotals ==
    Done => (result.trade_ratio = 100 <=> result.team1_total = result.team2_total)

\* C4 as amended: equal totals give a ratio of 1.00, and so do all totals
\* of which the smaller is more than 99.5% of the larger; a ratio of 1.00
\* means that the smaller total is at least 99.5% of the larger one.
C4_RatioOneNearEqualTotals ==
    Done =>
        /\ result.team1_total = result.team2_total => result.trade_ratio = 100
        /\ 200 * SmallerTotal > 199 * LargerTotal => result.trade_ratio = 100
        /\ result.trade_ratio = 100 => 200 * SmallerTotal >= 199 * LargerTotal

\* two players of equal adjusted score traded for one another
C4_Witness ==
    /\ Done
    /\ Len(team1_selected) = 1 /\ Len(team2_selected) = 1
    /\ result.team1_total = result.team2_total
    /\ result.trade_ratio = 100

\* the trade with the two sides exchanged, evaluated in the same week with
\* the same floats rounding the same way
SwappedResults ==
    {r \in evaluate_trade(data, team2_selected, team1_selected,
                          InjuryAdjustments(2, team2_selected, injury_status),
                          InjuryAdjustments(1, team1_selected, injury_status),
                          team2, team1, Stats, num_top_players,
                          CHOOSE now \in Dates : calculate_week(now) = result.week) :
        r.status = "done" /\ r.ties_up = result.ties_up}

\* C5: symmetry: swapping the two sides of a trade (players, injury
\* adjustments and team names together) leaves the overall ratio, the
\* regular, recent-14 and recent-30 ratios and the verdict unchanged.
C5_Symmetry ==
    Done =>
        /\ SwappedResults # {}
        /\ \A r \in SwappedResults :
              /\ r.trade_ratio = result.trade_ratio
              /\ r.regular_trade_ratio = result.regular_trade_ratio
              /\ r.last14_trade_ratio = result.last14_trade_ratio
              /\ r.last30_trade_ratio = result.last30_trade_ratio
              /\ r.trade_status_text = result.trade_status_text

\* an uneven trade: the totals differ in the overall score and in each of
\* the three auxiliary sums, and the swapped trade has team 2 ahead
C5_Witness ==
    /\ Done
    /\ result.team1_total > result.team2_total
    /\ FloatGreater(result.team1_regular_total, result.team2_regular_total)
    /\ FloatGreater(result.team1_last14_total, result.team2_last14_total)
    /\ FloatGreater(result.team2_last14_total, Num(0))
    /\ result.team1_last30_total # result.team2_last30_total
    /\ FloatGreater(result.team2_last30_total, Num(0))
    /\ \E r \in SwappedResults : r.team2_total > r.team1_total

\* C6: approval rule: in every completed evaluation the verdict is TRADE
\* APPROVED if and only if the overall ratio, as rounded to 2 decimals, is at
\* least 0.80, and TRADE NOT APPROVED otherwise; the auxiliary ratios do not
\* influence it.
C6_ApprovalRule ==
    Done =>
        /\ result.trade_status_text \in {"TRADE APPROVED", "TRADE NOT APPROVED"}
        /\ result.trade_status_text = "TRADE APPROVED" <=> result.trade_ratio >= 80

\* a trade approved at exactly 0.80 although one auxiliary ratio is below it
C6_Witness ==
    /\ Done
    /\ result.trade_ratio = 80
    /\ result.trade_status_text = "TRADE APPROVED"
    /\ result.last14_trade_ratio < 80

\* C7: zero-total guard: a total of exactly 0 aborts the evaluation with the
\* warning and no ratio or verdict, so that a trade is scored only when both
\* sides offer at least one player.
C7_ScoredOnlyWithPlayersOnBothSides ==
    /\ result.status = "zero_total" =>
          result.warning = "Both teams must have at least one player."
    /\ Done => team1_selected # <<>> /\ team2_selected # <<>>

NumEmptySlots(details) ==
    Cardinality({i \in DOMAIN details : details[i].player = EmptySlot})

\* the adjusted scores of the players a side offers, summed
OfferedTotal(side, selected) ==
    SumSeq([i \in 1..Len(selected) |->
              AdjustedScore(selected[i], injury_options[injury_status[<<side, selected[i]>>]],
                            result.week, data)])

\* C8: empty-slot padding: when one side offers m players and the other
\* n < m, exactly m - n empty slots of score 2.00 are appended to the second
\* and none to the first, so both sides have the same number of entries and
\* the second side's total grows by exactly 2.00 * (m - n); when m = n no
\* slot is added.
C8_EmptySlotPadding ==
    Done =>
        LET m == Len(team1_selected)
            n == Len(team2_selected)
        IN  /\ NumEmptySlots(result.team1_details) = Max(n - m, 0)
            /\ NumEmptySlots(result.team2_details) = Max(m - n, 0)
            /\ \A i \in DOMAIN result.team1_details :
                  result.team1_details[i].player = EmptySlot <=> i > m
            /\ \A i \in DOMAIN result.team2_details :
                  result.team2_details[i].player = EmptySlot <=> i > n
            /\ \A i \in DOMAIN result.team1_details :
                  i > m => result.team1_details[i].score = 2 * 20
            /\ \A i \in DOMAIN result.team2_details :
                  i > n => result.team2_details[i].score = 2 * 20
            /\ Len(result.team1_details) = Len(result.team2_details)
            /\ Len(result.team1_scores) = Len(result.team2_scores)
            /\ Len(result.team1_scores) = Len(result.team1_details)
            /\ result.team1_total = OfferedTotal(1, team1_selected) + 2 * 20 * Max(n - m, 0)
            /\ result.team2_total = OfferedTotal(2, team2_selected) + 2 * 20 * Max(m - n, 0)

\* two players traded for one: one slot on the other side
C8_Witness ==
    /\ Done
    /\ Len(team1_selected) = 2 /\ Len(team2_selected) = 1
    /\ NumEmptySlots(result.team2_details) = 1
    /\ Len(result.team2_details) = 2

-----------------------------------------------------------------------------
(* Claims about calculate_team_averages (under SpecAvg) *)

Returned == call.fn = "calculate_team_averages" /\ call.pc = "returned"

\* the table rows whose normalized name is in the roster list
Qualifying ==
    {i \in DOMAIN df_regular_season :
        \E j \in DOMAIN call.player_list_normalized :
            call.player_list_normalized[j] = df_regular_season[i].Player_Name_Normalized}

\* of these, the rows with fewer than N qualifying rows of lower R#
LowestRanked ==
    {i \in Qualifying :
        Cardinality({j \in Qualifying : df_regular_season[j].R < df_regular_season[i].R})
            < call.num_top}

RECURSIVE SumOver(_)
SumOver(f) ==
    IF DOMAIN f = {} THEN 0
    ELSE LET x == CHOOSE x \in DOMAIN f : TRUE
         IN  f[x] + SumOver([y \in DOMAIN f \ {x} |-> f[y]])

\* made (part 1) or attempted (part 2) shots of a column, summed over the rows
ShotsOver(rows, column, part) ==
    SumOver([i \in rows |-> parse_attempts(df_regular_season[i][column])[part]])

\* what a shooting percentage has to be over the lowest-ranked rows
ExpectedPct(column) ==
    IF ShotsOver(LowestRanked, column, 2) = 0 THEN <<0, 1>>
    ELSE <<ShotsOver(LowestRanked, column, 1), ShotsOver(LowestRanked, column, 2)>>

\* C9: calculate_team_averages computes FG% and FT% as sum(made) /
\* sum(attempted) over the selected top-N players, not as the mean of the
\* players' percentages, and returns 0 when the summed attempts are 0.
C9_PercentageOfSums ==
    Returned =>
        /\ RatEq(call.team_averages["FG%"], ExpectedPct("FGA"))
        /\ RatEq(call.team_averages["FT%"], ExpectedPct("FTA"))
        /\ call.team_averages["FG%"][2] > 0
        /\ call.team_averages["FT%"][2] > 0
        /\ ShotsOver(LowestRanked, "FGA", 2) = 0 => call.team_averages["FG%"] = <<0, 1>>
        /\ ShotsOver(LowestRanked, "FTA", 2) = 0 => call.team_averages["FT%"] = <<0, 1>>

\* two selected players with 5 of 10 and 1 of 20 field goals, 6/30 together
\* where the mean of 0.50 and 0.05 is 0.275, and no free throw attempted
C9_Witness ==
    /\ Returned
    /\ Cardinality(LowestRanked) = 2
    /\ {df_regular_season[i].FGA : i \in LowestRanked}
          = {Text(<<"5", "/", "1", "0">>), Text(<<"1", "/", "2", "0">>)}
    /\ RatEq(call.team_averages["FG%"], <<6, 30>>)
    /\ ShotsOver(LowestRanked, "FTA", 2) = 0
    /\ call.team_averages["FT%"] = <<0, 1>>

\* what the average of a counting category has to be over the lowest-ranked rows
ExpectedAverage(cat) ==
    IF LowestRanked = {} THEN <<0, 1>>
    ELSE <<SumOver([i \in LowestRanked |-> df_regular_season[i][cat]]),
           Cardinality(LowestRanked)>>

\* C10: top-N truncation: with unique ranks calculate_team_averages
\* aggregates over exactly the min(N, k) rows of lowest R# among the k rows
\* whose normalized name is in the roster list; no other row contributes to
\* any category, and fewer than N qualifying rows are not an error.
C10_TopNTruncation ==
    Returned =>
        /\ Cardinality(LowestRanked) = Min(call.num_top, Cardinality(Qualifying))
        /\ DOMAIN call.team_averages = Range(AllCategories)
        /\ \A i \in 1..Len(Categories) :
              call.team_averages[Categories[i]] = ExpectedAverage(Categories[i])
        /\ RatEq(call.team_averages["FG%"], ExpectedPct("FGA"))
        /\ RatEq(call.team_averages["FT%"], ExpectedPct("FTA"))

\* three qualifying rows and N = 2: the row of worst rank is left out, and
\* the points are the mean of the other two
C10_Witness ==
    /\ Returned
    /\ call.num_top = 2
    /\ Cardinality(Qualifying) = 3
    /\ Cardinality(LowestRanked) = 2
    /\ \E i \in Qualifying \ LowestRanked :
          /\ df_regular_season[i].R = 3
          /\ call.team_averages["PTS"][1] = 63 - df_regular_season[i].PTS
    /\ call.team_averages["PTS"][2] = 2

\* C11: for every counting category (3PM, PTS, TREB, AST, STL, BLK, TO)
\* calculate_team_averages returns the category's sum over the selected
\* players divided by their number, and it returns 0 for every category when
\* no player is selected (empty roster, or no roster player in the table).
C11_CountingCategoryMeans ==
    Returned =>
        /\ \A i \in 1..Len(Categories) :
              LET average == call.team_averages[Categories[i]]
                  total == SumOver([r \in LowestRanked |-> df_regular_season[r][Categories[i]]])
              IN  /\ average[2] > 0
                  /\ LowestRanked # {} => average[1] * Cardinality(LowestRanked) = total * average[2]
                  /\ LowestRanked = {} => average[1] = 0
        /\ LowestRanked = {} =>
              \A cat \in DOMAIN call.team_averages : call.team_averages[cat][1] = 0

\* two selected players whose points, 11 and 31 or 21 and 31 or 11 and 21,
\* have a mean that is neither player's value
C11_Witness ==
    /\ Returned
    /\ Cardinality(LowestRanked) = 2
    /\ call.team_averages["PTS"][2] = 2
    /\ call.team_averages["PTS"][1] \in {32, 42, 52}
    /\ call.team_averages["TO"] = <<6, 2>>

-----------------------------------------------------------------------------
(* Claims about the rosters and the average tables of evaluate_trade       *)
(* (under Spec)                                                            *)

\* the normalized name the score table gives a player
NormalizedOf(player) ==
    (CHOOSE row \in Range(data) : row.Player_Name = player).Player_Name_Normalized

NormalizedSet(players) == {NormalizedOf(players[i]) : i \in DOMAIN players}

\* the normalized names of the players the score table has on a team
OnTeam(team) ==
    {data[i].Player_Name_Normalized : i \in {j \in DOMAIN data : data[j].Takim = team}}

\* what a side's after-trade roster has to be, as a set
ExpectedAfter(team, outgoing, incoming) ==
    (OnTeam(team) \ NormalizedSet(outgoing)) \cup NormalizedSet(incoming)

\* C12: after-trade roster: for each team the roster used for the 'after'
\* averages is the current roster minus the team's outgoing players plus the
\* other team's outgoing players: none of its own outgoing players, every
\* incoming player, and every current player that was not traded.
C12_AfterTradeRoster ==
    Done =>
        LET after1 == result.roster[1].after
            after2 == result.roster[2].after
        IN  /\ Range(after1) = ExpectedAfter(team1, team1_selected, team2_selected)
            /\ Range(after2) = ExpectedAfter(team2, team2_selected, team1_selected)
            /\ Range(after1) \cap NormalizedSet(team1_selected) = {}
            /\ Range(after2) \cap NormalizedSet(team2_selected) = {}
            /\ NormalizedSet(team2_selected) \subseteq Range(after1)
            /\ NormalizedSet(team1_selected) \subseteq Range(after2)
            /\ Len(after1) = Cardinality(OnTeam(team1)) - Len(team1_selected) + Len(team2_selected)
            /\ Len(after2) = Cardinality(OnTeam(team2)) - Len(team2_selected) + Len(team1_selected)
            /\ \A tbl \in Range(TableNames) :
                  /\ result.avg[1][tbl].after
                        = calculate_team_averages(Stats[tbl], after1, num_top_players)
                  /\ result.avg[2][tbl].after
                        = calculate_team_averages(Stats[tbl], after2, num_top_players)

\* team 1 trades one of its two players for one of team 2's: each roster
\* keeps one player and receives one
C12_Witness ==
    /\ Done
    /\ Len(team1_selected) = 1 /\ Len(team2_selected) = 1
    /\ Cardinality(OnTeam(team1)) = 2 /\ Cardinality(OnTeam(team2)) = 2
    /\ Len(result.roster[1].after) = 2
    /\ NormalizedOf(team2_selected[1]) \in Range(result.roster[1].after)
    /\ NormalizedOf(team1_selected[1]) \notin Range(result.roster[1].after)
    /\ \E p \in OnTeam(team1) : p \in Range(result.roster[1].after)

\* the normalized names of a team's rows of the score table, in table order:
\* a function of the table and the team alone
RosterBefore(team) ==
    LET rows == SelectSeq(data, LAMBDA row : row.Takim = team)
    IN  [i \in 1..Len(rows) |-> rows[i].Player_Name_Normalized]

\* C13: the 'before' roster and the 'before' averages of each team are
\* unaffected by the trade: they are a function of the tables, the team
\* and N alone, the same for every choice of selected players and injury
\* adjustments.
C13_BeforeUnaffectedByTrade ==
    Done =>
        /\ result.roster[1].before = RosterBefore(team1)
        /\ result.roster[2].before = RosterBefore(team2)
        /\ \A tbl \in Range(TableNames) :
              /\ result.avg[1][tbl].before
                    = calculate_team_averages(Stats[tbl], RosterBefore(team1), num_top_players)
              /\ result.avg[2][tbl].before
                    = calculate_team_averages(Stats[tbl], RosterBefore(team2), num_top_players)

\* a trade of injured players that changes a team's averages: the 'after'
\* averages differ from the 'before' ones, which are those of the full roster
C13_Witness ==
    /\ Done
    /\ team1_selected # <<>> /\ team2_selected # <<>>
    /\ \E key \in DOMAIN injury_status : injury_status[key] # NoInjury
    /\ result.roster[1].before = RosterBefore(team1)
    /\ result.roster[1].after # result.roster[1].before
    /\ result.avg[1]["regular"].after # result.avg[1]["regular"].before

\* r is x rounded to a multiple of 1/unit: no multiple is nearer to x
IsRounded(r, x, unit) ==
    LET distance == unit * x[1] - r * x[2]
    IN  2 * (IF distance >= 0 THEN distance ELSE 0 - distance) <= x[2]

\* the sides, tables and categories of the average tables
AvgCells == {1, 2} \X Range(TableNames) \X Range(AllCategories)

\* the digits a category is rounded to, as a unit: 3 decimals for FG% and
\* FT%, 2 for the others
DisplayUnit(cat) == IF cat = "FG%" \/ cat = "FT%" THEN 1000 ELSE 100

\* C14: in every before/after/diff table, Diff for a category is
\* round(after) - round(before), rounding to 3 decimals for FG% and FT% and
\* to 2 decimals for the other categories; Diff is not computed from the
\* unrounded averages, so it agrees with the displayed values.
C14_DiffOfRoundedValues ==
    Done =>
        \A cell \in AvgCells :
            LET row == result.avg_tables[cell[1]][cell[2]][cell[3]]
                avg == result.avg[cell[1]][cell[2]]
            IN  /\ row.Diff = row.After - row.Before
                /\ IsRounded(row.Before, avg.before[cell[3]], DisplayUnit(cell[3]))
                /\ IsRounded(row.After, avg.after[cell[3]], DisplayUnit(cell[3]))

\* after - before of the unrounded averages of a category, as a quotient
AverageChange(avg, cat) ==
    <<avg.after[cat][1] * avg.before[cat][2] - avg.before[cat][1] * avg.after[cat][2],
      avg.after[cat][2] * avg.before[cat][2]>>

\* a table in which the difference of the rounded values is not the rounded
\* difference of the averages
C14_Witness ==
    /\ Done
    /\ \E cell \in AvgCells :
          LET row == result.avg_tables[cell[1]][cell[2]][cell[3]]
              avg == result.avg[cell[1]][cell[2]]
          IN  /\ row.Diff = row.After - row.Before
              /\ row.Diff # 0
              /\ ~IsRounded(row.Diff, AverageChange(avg, cell[3]), DisplayUnit(cell[3]))

-----------------------------------------------------------------------------
(* Claims about evaluate_trade called directly (under SpecEval)            *)

CalledTwice == call.fn = "evaluate_trade" /\ call.pc = "twice"

SameWeek == call.now1 \div 7 = call.now2 \div 7

\* the floats of the two calls round the same way
SameRounding ==
    (call.first.status = "done" /\ call.second.status = "done") =>
        call.second.ties_up = call.first.ties_up

-----------------------------------------------------------------------------
(* Claims about whole evaluations (under Spec)                             *)

\* the scenario: week 10, "Player X" (regular 10, projection 8) without
\* injury for "Player Y" (regular 6, projection 6) with the -1 adjustment
Scenario ==
    /\ Done
    /\ result.week = 10
    /\ team1_selected = <<"Player X">>
    /\ team2_selected = <<"Player Y">>
    /\ injury_options[injury_status[<<1, "Player X">>]] = 0
    /\ injury_options[injury_status[<<2, "Player Y">>]] = 0 - 1

\* C16: end-to-end scenario: in week 10, X (regular 10, projection 8,
\* adjustment 0) for Y (regular 6, projection 6, adjustment -1) gives the
\* adjusted scores 9.0 and 5.0, no empty slot, the overall ratio 0.56 and a
\* trade that is not approved.
C16_EndToEndScenario ==
    Scenario =>
        /\ PlayerData(data, "Player X").Regular = Num(10)
        /\ PlayerData(data, "Player X").Projection = Num(8)
        /\ PlayerData(data, "Player Y").Regular = Num(6)
        /\ PlayerData(data, "Player Y").Projection = Num(6)
        /\ result.team1_scores = <<9 * 20>>
        /\ result.team2_scores = <<5 * 20>>
        /\ NumEmptySlots(result.team1_details) = 0
        /\ NumEmptySlots(result.team2_details) = 0
        /\ Len(result.team1_details) = 1 /\ Len(result.team2_details) = 1
        /\ result.trade_ratio = 56
        /\ result.trade_status_text = "TRADE NOT APPROVED"

\* the scenario has been evaluated
C16_Witness ==
    /\ Scenario
    /\ result.team1_total = 9 * 20
    /\ result.team2_total = 5 * 20
    /\ result.trade_ratio = 56

-----------------------------------------------------------------------------
(* Claims about failing lookups (under SpecEval)                           *)

Called == call.fn = "evaluate_trade" /\ call.pc \in {"once", "twice"}

\* the players of a list that have no row in the score table
Missing(players) ==
    {players[i] : i \in {j \in DOMAIN players :
                            \A k \in DOMAIN data : data[k].Player_Name # players[j]}}

\* a player of the call whose Regular or Projection cell holds a text
TextCellOffered ==
    \E p \in Range(call.team1_players) \cup Range(call.team2_players) :
    \E k \in DOMAIN data :
        /\ data[k].Player_Name = p
        /\ data[k].Regular.t = "str" \/ data[k].Projection.t = "str"

\* C17: if a requested player name has no matching row in the score table,
\* calculate_score fails with a lookup error that propagates to the caller
\* (no default score is returned), and evaluate_trade then produces no
\* totals, ratio or verdict for that trade.
C17_MissingPlayerFails ==
    (Called /\ Missing(call.team1_players) \cup Missing(call.team2_players) # {}) =>
        /\ \A p \in Missing(call.team1_players) \cup Missing(call.team2_players) :
              calculate_score_raises(p, call.first.week, data) = "IndexError"
        /\ call.first.status # "done"
        /\ DOMAIN call.first = {"status", "week"}
        /\ ~TextCellOffered => call.first.status = "IndexError"

\* a call that offers a player of the table together with one it does not
\* have: the lookup error ends it
C17_Witness ==
    /\ Called
    /\ call.team1_players = <<"Player X", "Nobody">>
    /\ call.team2_players = <<"Player Y">>
    /\ call.first.status = "IndexError"

-----------------------------------------------------------------------------
(* Claims about incomplete rows (C18 under SpecScore, C19 under Spec)      *)

\* C18: if a player's regular or projection score is missing (NaN) or not
\* a number, calculate_score fails instead of returning a score; it never
\* silently returns the floor value 2 for such a player.
C18_InvalidScoreFails ==
    (/\ call.fn = "calculate_score"
     /\ call.pc # "called"
     /\ HasPlayer(data, call.player_name)
     /\ ~NumericScores) =>
        /\ call.pc = "raised"
        /\ call.raised # "none"

\* the cell of the score table for a player and a column
CellOf(player, column) ==
    (CHOOSE row \in Range(data) : row.Player_Name = player)[column]

\* what a selected player has to contribute to a recent-window sum, in
\* twentieths: nothing for 'N/A', max(2, v + a) for a value v
Contribution(side, player, column) ==
    LET cell == CellOf(player, column)
        a == injury_options[injury_status[<<side, player>>]]
    IN  IF cell = NA THEN 0 ELSE Max(2 * 20, 20 * (cell.v + a))

\* what a side's recent-window sum has to be: the contributions of its
\* players and 2.0 for each empty slot
ExpectedRecent(side, selected, other, column) ==
    Num(SumOver([i \in DOMAIN selected |-> Contribution(side, selected[i], column)])
        + 2 * 20 * Max(Len(other) - Len(selected), 0))

\* no selected player has an empty (NaN) cell in the column
NoneEmpty(selected, column) ==
    \A i \in DOMAIN selected : ~IsNaN(CellOf(selected[i], column))

IsZero(total) == total = Num(0)

-----------------------------------------------------------------------------
(* The validation gate of main *)

\* the run called evaluate_trade: what it shows is what the evaluation
\* rendered, a full result, its zero-total warning or its exception
Invoked(shown) == shown.status \in {"done", "zero_total", "IndexError", "TypeError"}

\* the messages main itself renders: st.warning at 1191 and 1322, st.error
\* at 1216 and 1319
GateMessages == {"not_enough_teams", "same_team", "duplicate_players", "no_players"}

\* the run that produced the next state was started by the Evaluate Trade
\* button: no widget changed its value
ButtonPressed == UNCHANGED widgets

\* the conditions of the gate, on the values of the run
GateOpen ==
    /\ Len(UniqueTeams(data')) >= 2
    /\ team1' # team2'
    /\ Range(team1_selected') \cap Range(team2_selected') = {}
    /\ (team1_selected' # <<>> \/ team2_selected' # <<>>)

\* C20 as stated: evaluate_trade is invoked only if the button was pressed,
\* two teams exist, the selected teams differ, no player is selected on both
\* sides and a side has a selected player; in every other case the run ends
\* with a user-facing message and no evaluation result.
C20_GateOrMessage ==
    [][ /\ Invoked(result') => ButtonPressed /\ GateOpen
        /\ ~Invoked(result') =>
              DOMAIN result' = {"status"} /\ result'.status \in GateMessages
      ]_vars

\* C20, amended: evaluate_trade is invoked only if the button was pressed
\* and the gate is open; a pressed run with the gate closed ends with one of
\* main's messages and nothing else; a run the button did not start ends
\* with a message when the league has fewer than two teams or the selected
\* teams are the same, and otherwise shows the form alone, with no message
\* and no result.
C20_ValidationGate ==
    [][ /\ Invoked(result') <=> (ButtonPressed /\ GateOpen)
        /\ ~Invoked(result') =>
              /\ DOMAIN result' = {"status"}
              /\ result'.status \in GateMessages \cup {"idle"}
              /\ result'.status = "idle" <=>
                    ~ButtonPressed /\ Len(UniqueTeams(data')) >= 2 /\ team1' # team2'
      ]_vars

\* C20 witness: the button was pressed with one player selected on both
\* sides, and the run ended with the duplicate-player error
C20_Witness ==
    /\ Range(team1_selected) \cap Range(team2_selected) # {}
    /\ result = [status |-> "duplicate_players"]

-----------------------------------------------------------------------------
(* calculate_team_averages statement by statement, called several times in *)
(* any order on the four statistics tables the dashboard holds: a call is  *)
(* given a reference to a table, and what it does to the table stays.      *)

\* how many calls a behaviour makes at most
MaxCalls == 3

\* the table a name refers to
TableOf(tbl) == Stats[tbl]

\* the rosters the calls are made with: Team A before a trade of "Player X"
\* for "Player Y", and after it
CallRosters ==
    { CurrentRoster(ScoreTable, "Team A"),
      AfterRoster(CurrentRoster(ScoreTable, "Team A"), <<"player x">>, <<"player y">>) }

\* the filter done on the caller's table itself, as drop(..., inplace=True)
\* would do it
FilterInPlace(df, player_list_normalized) ==
    [df |-> FilterRoster(df, player_list_normalized),
     team_df |-> FilterRoster(df, player_list_normalized)]

\* line 232: team_df = df[df[...].isin(player_list_normalized)].copy(); the
\* caller's table and the new local table after the statement
FilterCopy(df, player_list_normalized) ==
    [df |-> df, team_df |-> FilterRoster(df, player_list_normalized)]

\* the four tables with the table named tbl replaced by df
StoreTable(tbl, df) ==
    /\ df_regular_season' = IF tbl = "regular" THEN df ELSE df_regular_season
    /\ df_rest_of_season' = IF tbl = "projection" THEN df ELSE df_rest_of_season
    /\ df_last14' = IF tbl = "last14" THEN df ELSE df_last14
    /\ df_last30' = IF tbl = "last30" THEN df ELSE df_last30

InitCalls ==
    /\ data = ScoreTable
    /\ df_regular_season = RegularSeasonTable
    /\ df_rest_of_season = RestOfSeasonTable
    /\ df_last14 = Last14Table
    /\ df_last30 = Last30Table
    /\ Idle
    /\ call = [fn |-> "calculate_team_averages", pc |-> "idle", history |-> <<>>]

\* the call and line 232
BeginCall(tbl, roster, n) ==
    /\ call.fn = "calculate_team_averages"
    /\ call.pc = "idle"
    /\ Len(call.history) < MaxCalls
    /\ LET after == FilterCopy(TableOf(tbl), roster)
       IN  /\ StoreTable(tbl, after.df)
           /\ call' = [fn |-> call.fn, pc |-> "filtered", history |-> call.history,
                       table |-> tbl, passed |-> roster,
                       player_list_normalized |-> roster, num_top |-> n,
                       team_df |-> after.team_df]
    /\ UNCHANGED <<data, widgets, result>>

\* lines 235-238: the rank made numeric in the local table, the sort and
\* the truncation, which give new local tables
SortAndTruncate ==
    /\ call.fn = "calculate_team_averages"
    /\ call.pc = "filtered"
    /\ call' = [call EXCEPT !.pc = "sorted",
                            !.team_df = HeadRows(SortByRank(call.team_df), call.num_top)]
    /\ UNCHANGED <<tables, widgets, result>>

\* lines 240-279: the sums, the averages and the return; the locals are gone
ReturnAverages ==
    /\ call.fn = "calculate_team_averages"
    /\ call.pc = "sorted"
    /\ call' = [fn |-> call.fn, pc |-> "idle",
                history |-> Append(call.history,
                              [table |-> call.table, passed |-> call.passed,
                               player_list_normalized |-> call.player_list_normalized,
                               num_top |-> call.num_top,
                               team_averages |-> TeamAverages(call.team_df)])]
    /\ UNCHANGED <<tables, widgets, result>>

NextCalls ==
    \/ \E tbl \in Range(TableNames), roster \in CallRosters, n \in TopChoices :
          BeginCall(tbl, roster, n)
    \/ SortAndTruncate
    \/ ReturnAverages

SpecCalls == InitCalls /\ [][NextCalls]_vars

-----------------------------------------------------------------------------
(* Claims about repeated calls (under SpecCalls)                           *)

SameArguments(c1, c2) ==
    c1.table = c2.table /\ c1.passed = c2.passed /\ c1.num_top = c2.num_top

\* C21: calculate_team_averages is pure: it leaves its input table and its
\* roster list unchanged and keeps no state between calls, so a call
\* returns the same value for the same (table, roster, N) whatever calls
\* preceded it and in whatever order; the score table and the four
\* statistics tables are never written.
C21_TeamAveragesIsPure ==
    call.fn = "calculate_team_averages" =>
        /\ data = ScoreTable
        /\ df_regular_season = RegularSeasonTable
        /\ df_rest_of_season = RestOfSeasonTable
        /\ df_last14 = Last14Table
        /\ df_last30 = Last30Table
        /\ \A i \in DOMAIN call.history :
              /\ call.history[i].player_list_normalized = call.history[i].passed
              /\ call.history[i].team_averages =
                    calculate_team_averages(Stats[call.history[i].table],
                        call.history[i].passed, call.history[i].num_top)
              /\ \A j \in DOMAIN call.history :
                    SameArguments(call.history[i], call.history[j])
                        => call.history[i].team_averages = call.history[j].team_averages

\* C21 witness: a call, a call on the same table with another roster, then
\* the first call again; the first call dropped a row of the table from its
\* local copy
C21_Witness ==
    /\ call.fn = "calculate_team_averages" /\ call.pc = "idle"
    /\ Len(call.history) = 3
    /\ SameArguments(call.history[1], call.history[3])
    /\ call.history[2].table = call.history[1].table
    /\ call.history[2].passed # call.history[1].passed
    /\ call.history[2].team_averages # call.history[1].team_averages
    /\ Len(FilterRoster(Stats[call.history[1].table], call.history[1].passed))
           < Len(Stats[call.history[1].table])

-----------------------------------------------------------------------------
(* The scraper (RotoWireHashtagAllDataScraper.py) refreshing the files of  *)
(* the data directory while the dashboard loads them.  A file's content is *)
(* the refresh round that wrote it; round 0 is what the directory holds at *)
(* the start.  call holds the scraper's position, the directory and the    *)
(* dashboard's cache; result is what the dashboard's run has loaded.       *)

\* how many times the scraper is run
MaxRounds == 2

Absent == [t |-> "absent"]

\* the injury report: as downloaded, or processed (teams renamed, the
\* Est. Return column dropped)
InjuryFile(round, processed) == [t |-> "injury", round |-> round, processed |-> processed]

\* a statistics file with the FGA and FTA columns
StatsFile(round) == [t |-> "stats", round |-> round]

\* merged_scores.xlsx: the TOTAL columns of the projection and the regular file
MergedFile(projection, regular) ==
    [t |-> "merged", projection |-> projection.round, regular |-> regular.round]

\* the selections of process_hashtag_basketball, in the order of its loop
Selections == <<"projection", "regular", "last_season">>

NotLoaded == [t |-> "not_loaded"]

\* st.cache_data of read_data, load_regular_season_data and
\* load_rest_of_season_data
EmptyCache == [read_data |-> NotLoaded, regular |-> NotLoaded, projection |-> NotLoaded]

NotRun == [status |-> "not_run"]

InitRefresh ==
    /\ data = <<>>
    /\ df_regular_season = <<>>
    /\ df_rest_of_season = <<>>
    /\ df_last14 = <<>>
    /\ df_last30 = <<>>
    /\ team1 = NoTeam
    /\ team2 = NoTeam
    /\ team1_selected = <<>>
    /\ team2_selected = <<>>
    /\ injury_status = << >>
    /\ num_top_players = DefaultTop
    /\ result = NotRun
    /\ call = [fn |-> "refresh", pc |-> "stopped", round |-> 0, selection |-> 1,
               files |-> [injury |-> InjuryFile(0, TRUE), projection |-> StatsFile(0),
                          regular |-> StatsFile(0), last_season |-> StatsFile(0),
                          merged |-> MergedFile(StatsFile(0), StatsFile(0))],
               cache |-> EmptyCache]

Scraper(pc) == call.fn = "refresh" /\ call.pc = pc

FrameRefresh == UNCHANGED <<tables, widgets, result>>

\* the script is started
StartScraper ==
    /\ Scraper("stopped")
    /\ call.round < MaxRounds
    /\ call' = [call EXCEPT !.pc = "rotowire", !.round = call.round + 1]
    /\ FrameRefresh

\* process_rotowire, lines 64-66: the present file is removed
RemoveInjuryReport ==
    /\ Scraper("rotowire")
    /\ call' = [call EXCEPT !.pc = "downloading", !.files.injury = Absent]
    /\ FrameRefresh

\* lines 68-78: the browser writes the downloaded file
DownloadInjuryReport ==
    /\ Scraper("downloading")
    /\ call' = [call EXCEPT !.pc = "downloaded",
                            !.files.injury = InjuryFile(call.round, FALSE)]
    /\ FrameRefresh

\* lines 74-82: the file did not appear in 30 seconds; the function
\* returns, or line 69-70 raised and the except clause printed the error
DownloadFails ==
    /\ Scraper("downloading")
    /\ call' = [call EXCEPT !.pc = "hashtag", !.selection = 1]
    /\ FrameRefresh

\* lines 85-102: the file is read, changed and written back
RewriteInjuryReport ==
    /\ Scraper("downloaded")
    /\ call' = [call EXCEPT !.pc = "hashtag", !.selection = 1,
                            !.files.injury = InjuryFile(call.round, TRUE)]
    /\ FrameRefresh

\* process_hashtag_basketball, lines 210-231: one selection is fetched and
\* saved, or could not be fetched (df is None) and its file stays
SaveSelection(fetched) ==
    /\ Scraper("hashtag")
    /\ call.selection <= Len(Selections)
    /\ call' = [call EXCEPT
                  !.selection = call.selection + 1,
                  !.files[Selections[call.selection]] =
                      IF fetched THEN StatsFile(call.round)
                      ELSE call.files[Selections[call.selection]]]
    /\ FrameRefresh

\* lines 234-258: the two files are read and merged_scores.xlsx is written
MergeScores ==
    /\ Scraper("hashtag")
    /\ call.selection > Len(Selections)
    /\ call' = [call EXCEPT !.pc = "stopped",
                            !.files.merged = MergedFile(call.files.projection,
                                                        call.files.regular)]
    /\ FrameRefresh

\* a value through st.cache_data: the cached one if there is one
Cached(entry, read) == IF call.cache[entry] = NotLoaded THEN read ELSE call.cache[entry]

\* a run of main(), lines 1090-1143: the two files are looked for and read
\* by read_data, then the statistics files are read by their loaders
RunMain ==
    /\ call.fn = "refresh"
    /\ LET present == call.files.merged # Absent /\ call.files.injury # Absent
           merged_df == Cached("read_data", [scores |-> call.files.merged,
                                             injuries |-> call.files.injury])
           regular == Cached("regular", call.files.regular)
           projection == Cached("projection", call.files.projection)
       IN  /\ result' = IF present
                        THEN [status |-> "loaded", data |-> merged_df,
                              df_regular_season |-> regular,
                              df_rest_of_season |-> projection]
                        ELSE [status |-> "files_missing",
                              df_regular_season |-> regular,
                              df_rest_of_season |-> projection]
           /\ call' = [call EXCEPT
                         !.cache = [read_data |-> IF present THEN merged_df
                                                  ELSE call.cache.read_data,
                                    regular |-> regular, projection |-> projection]]
    /\ UNCHANGED <<tables, widgets>>

\* the dashboard's server is started anew: its cache is empty
RestartDashboard ==
    /\ call.fn = "refresh"
    /\ call.cache # EmptyCache
    /\ call' = [call EXCEPT !.cache = EmptyCache]
    /\ result' = NotRun
    /\ UNCHANGED <<tables, widgets>>

NextRefresh ==
    \/ StartScraper
    \/ RemoveInjuryReport
    \/ DownloadInjuryReport
    \/ DownloadFails
    \/ RewriteInjuryReport
    \/ \E fetched \in BOOLEAN : SaveSelection(fetched)
    \/ MergeScores
    \/ RunMain
    \/ RestartDashboard

SpecRefresh == InitRefresh /\ [][NextRefresh]_vars

-----------------------------------------------------------------------------
(* Claims about a refresh during a load (under SpecRefresh)                *)

\* the rounds of the tables a run has loaded
RoundsLoaded ==
    {result.data.scores.projection, result.data.scores.regular,
     result.data.injuries.round, result.df_regular_season.round,
     result.df_rest_of_season.round}

\* C22: when the scraper refreshes a data file while the dashboard loads,
\* the dashboard observes either the complete old files or the complete new
\* processed files: never a missing file, never a downloaded but not yet
\* processed injury report, never a mix of old and new tables.
C22_SnapshotAtomicity ==
    (call.fn = "refresh" /\ result # NotRun) =>
        /\ result.status = "loaded"
        /\ result.data.injuries.processed
        /\ Cardinality(RoundsLoaded) = 1

-----------------------------------------------------------------------------
(* calculate_week on its own, called at two readings of the clock, the     *)
(* second not before the first                                             *)

\* the earliest reading, in days before the season start
DaysBefore == 16

\* the latest reading, in days after the season start
MaxDay == 160

InitWeek ==
    /\ data = <<>>
    /\ df_regular_season = <<>>
    /\ df_rest_of_season = <<>>
    /\ df_last14 = <<>>
    /\ df_last30 = <<>>
    /\ Idle
    /\ \E now \in (0 - DaysBefore)..MaxDay, later \in (0 - DaysBefore)..MaxDay :
          /\ now <= later
          /\ call = [fn |-> "calculate_week", pc |-> "called", now |-> now,
                     later |-> later, week |-> 0, week_later |-> 0]

\* week = calculate_week() at the first reading
CallCalculateWeek ==
    /\ call.fn = "calculate_week"
    /\ call.pc = "called"
    /\ call' = [call EXCEPT !.pc = "once", !.week = calculate_week(call.now)]
    /\ UNCHANGED <<tables, widgets, result>>

\* week = calculate_week() at the second reading
CallCalculateWeekLater ==
    /\ call.fn = "calculate_week"
    /\ call.pc = "once"
    /\ call' = [call EXCEPT !.pc = "twice", !.week_later = calculate_week(call.later)]
    /\ UNCHANGED <<tables, widgets, result>>

NextWeek == CallCalculateWeek \/ CallCalculateWeekLater

SpecWeek == InitWeek /\ [][NextWeek]_vars

-----------------------------------------------------------------------------
(* Claims about calculate_week (under SpecWeek)                            *)

\* floor(days / 7): the integer q with 7 q <= days < 7 q + 7
FloorWeeks(days) ==
    CHOOSE q \in (0 - DaysBefore - 7)..(MaxDay + 7) : 7 * q <= days /\ days < 7 * q + 7

WeekReturned == call.fn = "calculate_week" /\ call.pc \in {"once", "twice"}

WeekReturnedTwice == call.fn = "calculate_week" /\ call.pc = "twice"

\* C23: calculate_week returns max(0, floor(days / 7) + 1): never negative,
\* 0 for every date more than 7 days before the season start, 1 on the
\* start day and the six following days, one more every 7 days from then
\* on, non-decreasing in the date, with no upper clamp.
C23_WeekOfDate ==
    /\ WeekReturned =>
          /\ call.week = Max(0, FloorWeeks(call.now) + 1)
          /\ call.week >= 0
          /\ call.now < 0 - 7 => call.week = 0
          /\ call.now \in 0..6 => call.week = 1
          /\ call.now >= 0 => (call.week - 1) * 7 <= call.now /\ call.now < call.week * 7
    /\ WeekReturnedTwice =>
          /\ call.week <= call.week_later
          /\ (call.now >= 0 /\ call.later = call.now + 7) => call.week_later = call.week + 1

\* C23 witness: a reading more than seven days before the season start,
\* and a later one after the twentieth week
C23_Witness ==
    /\ WeekReturnedTwice
    /\ call.now < 0 - 7 /\ call.week = 0
    /\ call.week_later > SeasonWeeks

-----------------------------------------------------------------------------
(* parse_attempts on its own, in both variants of the application, on      *)
(* well-formed and malformed cells                                         *)

\* the texts float() accepts that the model tries, with their values in tenths
NumberTexts ==
    { <<"5">>, <<"1", "0">>, <<"0">>, <<"1", ".", "5">>, <<"5", ".">>, <<".", "5">> }

\* the pieces a cell is put together from: numbers, the empty text and
\* texts float() rejects
Pieces == NumberTexts \cup { <<>>, <<"x">>, <<".">> }

\* the cells tried: piece/piece, a piece alone, piece/piece/piece, an empty
\* cell (NaN) and a number
AttemptCells ==
    {Text(a \o <<"/">> \o b) : a \in Pieces, b \in Pieces}
        \cup {Text(a) : a \in Pieces}
        \cup {Text(a \o <<"/">> \o a \o <<"/">> \o a) : a \in Pieces}
        \cup {NaNCell, Num(5)}

InitParse ==
    /\ data = <<>>
    /\ df_regular_season = <<>>
    /\ df_rest_of_season = <<>>
    /\ df_last14 = <<>>
    /\ df_last30 = <<>>
    /\ Idle
    /\ \E attempt_str \in AttemptCells :
          call = [fn |-> "parse_attempts", pc |-> "called", attempt_str |-> attempt_str,
                  variant |-> "none", returned |-> <<0, 0>>]

\* appwithimages.py: made, attempts = parse_attempts(attempt_str)
CallParseAttempts ==
    /\ call.fn = "parse_attempts"
    /\ call.pc = "called"
    /\ call' = [call EXCEPT !.pc = "returned", !.variant = "appwithimages",
                            !.returned = parse_attempts(call.attempt_str)]
    /\ UNCHANGED <<tables, widgets, result>>

\* app_back_up.py: made, attempts = parse_attempts(attempt_str)
CallParseAttemptsBackup ==
    /\ call.fn = "parse_attempts"
    /\ call.pc = "called"
    /\ call' = [call EXCEPT !.pc = "returned", !.variant = "app_back_up",
                            !.returned = parse_attempts_backup(call.attempt_str)]
    /\ UNCHANGED <<tables, widgets, result>>

NextParse == CallParseAttempts \/ CallParseAttemptsBackup

SpecParse == InitParse /\ [][NextParse]_vars

-----------------------------------------------------------------------------
(* Claims about parse_attempts (under SpecParse)                           *)

\* the value, in tenths, of a text of NumberTexts
TenthsOf(chars) ==
    CASE chars = <<"5">> -> 50
      [] chars = <<"1", "0">> -> 100
      [] chars = <<"0">> -> 0
      [] chars = <<"1", ".", "5">> -> 15
      [] chars = <<"5", ".">> -> 50
      [] chars = <<".", "5">> -> 5

\* made/attempted, both numbers
WellFormed(cell) ==
    /\ cell.t = "str"
    /\ \E a \in NumberTexts, b \in NumberTexts : cell.s = a \o <<"/">> \o b

MadeAndAttempted(cell) ==
    LET pair == CHOOSE ab \in NumberTexts \X NumberTexts : cell.s = ab[1] \o <<"/">> \o ab[2]
    IN  <<TenthsOf(pair[1]), TenthsOf(pair[2])>>

Parsed(variants) ==
    call.fn = "parse_attempts" /\ call.pc = "returned" /\ call.variant \in variants

ParsedAsStated ==
    IF WellFormed(call.attempt_str)
    THEN call.returned = MadeAndAttempted(call.attempt_str)
    ELSE call.returned = <<0, 0>>

\* C24: parse_attempts, in appwithimages.py and in app_back_up.py, maps a
\* well-formed 'made/attempted' string to the pair (made, attempted) and any
\* malformed or non-string input to (0.0, 0.0), without raising.
C24_ParseAttempts == Parsed({"appwithimages", "app_back_up"}) => ParsedAsStated

\* C24 for the dashboard's variant alone: appwithimages.py parses as stated
C24_ParseAttemptsOfDashboard == Parsed({"appwithimages"}) => ParsedAsStated

\* C24 for the backup variant: whatever the cell, the pair is (0.0, 0.0)
C24_BackupAlwaysZero == Parsed({"app_back_up"}) => call.returned = <<0, 0>>

-----------------------------------------------------------------------------
(* Claims about the week and the floors of a score (under SpecScore)       *)

RegularOf == data[1].Regular.v

ProjectionOf == data[1].Projection.v

\* C25: the week is not clamped to [0, 20].  For every week in [0, 20] the
\* blend lies between the player's regular and projection scores, so the
\* returned score does too unless it is the floor; for a week above 20 the
\* projection has a negative weight and the returned score lies outside
\* the interval: above both scores when the regular score is the larger,
\* below both (or at the floor) when it is the smaller.
C25_WeekNotClamped ==
    (ScoredCall /\ NumericScores) =>
        /\ call.week \in 0..20 =>
              /\ Points(Min(RegularOf, ProjectionOf)) <= call.score
              /\ call.score <= Points(Max(MinScore, Max(RegularOf, ProjectionOf)))
              /\ call.score > Points(MinScore) => call.score = Blend20
        /\ (call.week > 20 /\ RegularOf > ProjectionOf) =>
              call.score > Points(Max(RegularOf, ProjectionOf))
        /\ (call.week > 20 /\ RegularOf < ProjectionOf) =>
              \/ call.score < Points(Min(RegularOf, ProjectionOf))
              \/ call.score = Points(MinScore)

\* C25 witness: in a week after the twentieth a score was returned that
\* is not the floor and exceeds both the regular and the projection score
C25_Witness ==
    /\ ScoredCall /\ NumericScores
    /\ call.week > 20
    /\ call.score > Points(MinScore)
    /\ call.score > Points(RegularOf) /\ call.score > Points(ProjectionOf)

AdjustedCall == call.fn = "calculate_score" /\ call.pc = "adjusted"

\* the score evaluate_trade would store for the call's player with another
\* adjustment
AdjustedWith(injury_adjustment) ==
    AdjustedScore(call.player_name, injury_adjustment, call.week, data)

\* C26: the two floors applied to a player's score are equivalent to one:
\* for every regular, projection, week and adjustment in {0, -1, -2} the
\* adjusted score, max(2, max(2, blend) + adjustment), equals
\* max(2, blend + adjustment); an injury lowers the score by exactly the
\* flat penalty whenever blend + adjustment >= 2, and the score is
\* non-increasing as the adjustment goes 0, -1, -2.
C26_TwoFloorsAreOne ==
    (AdjustedCall /\ NumericScores) =>
        /\ call.injury_adjustment \in {0, 0 - 1, 0 - 2}
        /\ call.adjusted = Max(Points(MinScore), Blend20 + Points(call.injury_adjustment))
        /\ Blend20 + Points(call.injury_adjustment) >= Points(MinScore) =>
              /\ call.adjusted = Blend20 + Points(call.injury_adjustment)
              /\ call.adjusted = call.score + Points(call.injury_adjustment)
        /\ AdjustedWith(0) >= AdjustedWith(0 - 1)
        /\ AdjustedWith(0 - 1) >= AdjustedWith(0 - 2)
        /\ call.adjusted \in {AdjustedWith(0), AdjustedWith(0 - 1), AdjustedWith(0 - 2)}

\* C26 witness: an injured player whose blend is below the floor, so that
\* the first floor acted and then the second one
C26_Witness ==
    /\ AdjustedCall /\ NumericScores
    /\ call.injury_adjustment < 0
    /\ Blend20 < Points(MinScore)
    /\ call.score = Points(MinScore)
    /\ call.adjusted = Points(MinScore)

-----------------------------------------------------------------------------
(* Claims about the lists of an evaluation (under Spec)                    *)

\* C27: after the padding step of evaluate_trade, for each side the running
\* total equals the sum of its score list and the sum of the 'score' fields
\* of its detail entries, and both sides' score lists and detail lists all
\* have length max(m, n), m and n being the numbers of players offered.
C27_TotalsMatchLists ==
    Done =>
        LET m == Len(team1_selected)
            n == Len(team2_selected)
        IN  /\ result.team1_total = SumSeq(result.team1_scores)
            /\ result.team2_total = SumSeq(result.team2_scores)
            /\ result.team1_total = SumSeq(ScoresOf(result.team1_details))
            /\ result.team2_total = SumSeq(ScoresOf(result.team2_details))
            /\ Len(result.team1_scores) = Max(m, n)
            /\ Len(result.team2_scores) = Max(m, n)
            /\ Len(result.team1_details) = Max(m, n)
            /\ Len(result.team2_details) = Max(m, n)

\* C27 witness: one player offered for two, the second of them injured;
\* the shorter side was padded
C27_Witness ==
    /\ Done
    /\ Len(team1_selected) = 1 /\ Len(team2_selected) = 2
    /\ Len(result.team1_scores) = 2
    /\ result.team1_details[2].player = EmptySlot
    /\ result.team2_details[2].injury_adjustment < 0

\* C28: after padding, each side's total is at least 2.0 * max(m, n); the
\* zero-total guard of evaluate_trade is therefore true only when both
\* player lists are empty, and as main never calls evaluate_trade with both
\* selections empty, the guard's abort branch is unreachable from the
\* dashboard and the overall ratio never divides by zero.
C28_ZeroTotalGuardUnreachable ==
    /\ result.status # "zero_total"
    /\ Invoked(result) => team1_selected # <<>> \/ team2_selected # <<>>
    /\ Done =>
          LET most == Max(Len(team1_selected), Len(team2_selected))
          IN  /\ most >= 1
              /\ result.team1_total >= Points(MinScore) * most
              /\ result.team2_total >= Points(MinScore) * most
              /\ result.team1_total > 0 /\ result.team2_total > 0

\* C28 witness: players offered for nothing; the empty side's total is
\* that of its empty slots, 2.0 * max(m, n)
C28_Witness ==
    /\ Done
    /\ team1_selected # <<>> /\ team2_selected = <<>>
    /\ result.team2_total = Points(MinScore) * Len(team1_selected)

\* C28, for evaluate_trade called directly (under SpecEval): the guard
\* aborts exactly the calls with two empty lists
C28_GuardOnlyForEmptyLists ==
    Called =>
        (call.first.status = "zero_total"
            <=> call.team1_players = <<>> /\ call.team2_players = <<>>)

-----------------------------------------------------------------------------
(* Claims about the injury adjustments main passes on (under Spec)         *)

\* the adjustment the user chose for a selected player
ChosenAdjustment(side, player) == injury_options[injury_status[<<side, player>>]]

\* the details of a side's offered players are those of its selection, in
\* order, each with the adjustment chosen for that player
Aligned(side, selected, details) ==
    /\ Len(details) >= Len(selected)
    /\ \A i \in DOMAIN selected :
          /\ details[i].player = selected[i]
          /\ details[i].injury_adjustment = ChosenAdjustment(side, selected[i])
          /\ details[i].injury_adjustment \in {0, 0 - 1, 0 - 2}
          /\ details[i].score =
                AdjustedScore(selected[i], ChosenAdjustment(side, selected[i]),
                              result.week, data)

\* C29: positional alignment: on every path through main that reaches
\* evaluate_trade each injury-adjustment list has the length of the
\* corresponding selected-player list, its i-th element is the adjustment
\* chosen for the i-th selected player and every element is in {0, -1, -2};
\* the index lookup never goes out of range and never applies one player's
\* adjustment to another.
C29_AdjustmentsAligned ==
    /\ Len(InjuryAdjustments(1, team1_selected, injury_status)) = Len(team1_selected)
    /\ Len(InjuryAdjustments(2, team2_selected, injury_status)) = Len(team2_selected)
    /\ DOMAIN injury_status =
          ({1} \X Range(team1_selected)) \cup ({2} \X Range(team2_selected))
    /\ Invoked(result) => result.status \in {"done", "zero_total"}
    /\ Done =>
          /\ Aligned(1, team1_selected, result.team1_details)
          /\ Aligned(2, team2_selected, result.team2_details)

\* C29 witness: two players offered by one side, the first healthy and the
\* second injured, and the evaluation gave each their own adjustment
C29_Witness ==
    /\ Done
    /\ Len(team1_selected) = 2
    /\ result.team1_details[1].injury_adjustment = 0
    /\ result.team1_details[2].injury_adjustment < 0
    /\ ChosenAdjustment(1, team1_selected[2]) < 0

-----------------------------------------------------------------------------
(* calculate_team_averages of the two variants of the application, called  *)
(* with the same table, roster and N                                       *)

InitVariants ==
    /\ data = <<>>
    /\ \E rank \in Permutations3, fga \in [1..3 -> ShotStrings], fta \in FreeThrowColumns :
          df_regular_season =
              [i \in 1..3 |-> StatRow(AvgPlayers[i], rank[i], fga[i], fta[i], CountsOf(i))]
    /\ df_rest_of_season = <<>>
    /\ df_last14 = <<>>
    /\ df_last30 = <<>>
    /\ Idle
    /\ \E roster \in Rosters, n \in 1..MaxN :
          call = [fn |-> "variants", pc |-> "called",
                  player_list_normalized |-> roster, num_top |-> n]

\* appwithimages.py: team_averages = calculate_team_averages(df, roster, N)
CallDashboardVariant ==
    /\ call.fn = "variants"
    /\ call.pc = "called"
    /\ call' = [fn |-> call.fn, pc |-> "dashboard",
                player_list_normalized |-> call.player_list_normalized,
                num_top |-> call.num_top,
                team_averages |-> calculate_team_averages(df_regular_season,
                                      call.player_list_normalized, call.num_top)]
    /\ UNCHANGED <<tables, widgets, result>>

\* app_back_up.py: team_averages = calculate_team_averages(df, roster, N)
CallBackupVariant ==
    /\ call.fn = "variants"
    /\ call.pc = "dashboard"
    /\ call' = [fn |-> call.fn, pc |-> "both",
                player_list_normalized |-> call.player_list_normalized,
                num_top |-> call.num_top,
                team_averages |-> call.team_averages,
                team_averages_backup |-> calculate_team_averages_backup(df_regular_season,
                                             call.player_list_normalized, call.num_top)]
    /\ UNCHANGED <<tables, widgets, result>>

NextVariants == CallDashboardVariant \/ CallBackupVariant

SpecVariants == InitVariants /\ [][NextVariants]_vars

-----------------------------------------------------------------------------
(* Claims about the two variants (under SpecVariants)                      *)

BothReturned == call.fn = "variants" /\ call.pc = "both"

\* C30: the two variants are equivalent on the valuation core: for every
\* table, roster and N, calculate_team_averages of app_back_up.py returns
\* the same nine category values as that of appwithimages.py, FG% and FT%
\* for well-formed 'made/attempted' strings included.
C30_VariantsEquivalent ==
    BothReturned =>
        \A cat \in Range(AllCategories) :
            RatEq(call.team_averages_backup[cat], call.team_averages[cat])

\* C30 for the seven counting categories alone: the variants agree
C30_CountingCategoriesAgree ==
    BothReturned =>
        \A cat \in Range(Categories) :
            call.team_averages_backup[cat] = call.team_averages[cat]

\* C30 for the percentages: the backup variant's FG% and FT% are always 0
C30_BackupPercentagesZero ==
    BothReturned =>
        /\ RatEq(call.team_averages_backup["FG%"], <<0, 1>>)
        /\ RatEq(call.team_averages_backup["FT%"], <<0, 1>>)

====
